---- MODULE Spec2Model ----
(***************************************************************************)
(* A model of the devstoreSDK foreign-function library (src/src/lib.rs):   *)
(* the message envelope and its ownership, argument parsing, the API base  *)
(* URL, the archive packer and unpacker, the update installer, the         *)
(* notification dedup cache and the background poll loop.                  *)
(*                                                                         *)
(* Text is a sequence of tokens.  The token NUL stands for the character   *)
(* U+0000 and the token "/" for the character '/', which never occurs      *)
(* inside another token.  A path is a sequence of components.              *)
(***************************************************************************)
EXTENDS Naturals, Integers, Sequences, FiniteSets, TLC

VARIABLES
    apiUrl,     \* API_URL: the stored base URL (a text)
    heap,       \* live allocations: boxes (envelopes) and cstrs (text payloads)
    held,       \* envelopes the foreign caller owns and has not released yet
    aborted,    \* the process was aborted by a panic inside an extern "C" fn
    loops,      \* the background threads init_simple_loop spawned
    cacheFile,  \* <prefs>/notification_store.json
    manifest,   \* <prefs>/current_version.json
    files,      \* every other regular file: absolute path -> contents
    dirs,       \* the directories that exist (absolute paths)
    shown,      \* per notification id: send_notification calls and dialogs (capped)
    cloud,      \* the save archive the server holds (the last one it accepted)
    caller,     \* the calling thread: idle, or spinning inside an operation
    installers, \* host threads inside download_update_for_product, step by step
    call,       \* the last step taken: who ran which operation on which inputs
    ret,        \* what that step returned to the foreign caller
    sent        \* the network requests that step issued

vars == <<apiUrl, heap, held, aborted, loops, cacheFile, manifest, files, dirs,
          shown, cloud, caller, installers, call, ret, sent>>

-----------------------------------------------------------------------------
(* Bounds of the model.                                                    *)

\* The caller keeps at most this many envelopes before it releases one.
MaxHeld == 2
\* At most this many background loops are started.
MaxLoops == 2
\* The calls and the dialogs of one notification id are counted up to this.
MaxShown == 2

-----------------------------------------------------------------------------
(* Text, C strings.                                                        *)

NUL == "NUL"
Slash == "/"

HasNul(text) == \E i \in DOMAIN text : text[i] = NUL

\* str::replace('\0', " ")
ReplaceNul(text) == [i \in DOMAIN text |-> IF text[i] = NUL THEN " " ELSE text[i]]

\* CString::new: fails on an interior NUL.
CStringNew(text) == [ok |-> ~HasNul(text), s |-> text]

sanitize_message(text) ==
    LET cleaned == ReplaceNul(text)
        made == CStringNew(cleaned)
    IN  IF made.ok THEN made.s ELSE <<"Message contained invalid bytes">>

\* A `*const c_char` argument: a null pointer, or bytes up to the terminator
\* that are valid UTF-8 (s is their text) or not.
CNull == [null |-> TRUE, utf8 |-> TRUE, s |-> <<>>]
CBadUtf8 == [null |-> FALSE, utf8 |-> FALSE, s |-> <<>>]
CEmpty == [null |-> FALSE, utf8 |-> TRUE, s |-> <<>>]
CStrOf(text) == [null |-> FALSE, utf8 |-> TRUE, s |-> text]
CArgs(texts) == {CNull, CBadUtf8, CEmpty} \cup {CStrOf(t) : t \in texts}

-----------------------------------------------------------------------------
(* The message envelope and its allocations.                               *)

Null == 0
Info == "Info"
Success == "Success"
Warning == "Warning"
Error == "Error"

\* The allocator hands out an address that is not live.
Fresh(live) == CHOOSE a \in 1..(Cardinality(live) + 1) : a \notin live

Without(f, a) == [x \in DOMAIN f \ {a} |-> f[x]]

EmptyHeap == [boxes |-> <<>>, cstrs |-> {}]

\* The heap keeps, per live envelope, the address of its text payload, and the
\* live payloads; env is the envelope as the receiver reads it.
build_message(h, status, code, text) ==
    LET c_message == sanitize_message(text)
        pointer == Fresh(h.cstrs)
        boxed == Fresh(DOMAIN h.boxes)
    IN  [heap |-> [boxes |-> (boxed :> pointer) @@ h.boxes,
                   cstrs |-> h.cstrs \cup {pointer}],
         ptr |-> boxed,
         env |-> [status |-> status, code |-> code, message |-> c_message]]

message_success(h, text) == build_message(h, Success, 0, text)
message_info(h, text) == build_message(h, Info, 0, text)
message_warning(h, text) == build_message(h, Warning, 0, text)
message_error(h, text) == build_message(h, Error, 0, text)
message_with_code(h, status, code, text) == build_message(h, status, code, text)

missing_param(h, name) == message_error(h, <<"Missing ", name, " parameter">>)
invalid_param(h, name) == message_error(h, <<"Invalid ", name, " parameter">>)

\* A parse_c_string that reports a null reference as an invalid one.
parse_c_string_null_as_invalid(h, value, name) ==
    IF value.utf8 /\ value.s # <<>> /\ ~value.null THEN [ok |-> TRUE, s |-> value.s]
    ELSE [ok |-> FALSE, err |-> invalid_param(h, name)]

parse_c_string(h, value, name) ==
    IF value.null THEN [ok |-> FALSE, err |-> missing_param(h, name)]
    ELSE IF value.utf8 /\ value.s # <<>> THEN [ok |-> TRUE, s |-> value.s]
    ELSE [ok |-> FALSE, err |-> invalid_param(h, name)]

\* A drop_message that frees the envelope and leaves its text payload.
drop_message_leaking_payload(h, ptr) ==
    IF ptr = Null THEN h
    ELSE [boxes |-> Without(h.boxes, ptr), cstrs |-> h.cstrs]

drop_message(h, ptr) ==
    IF ptr = Null THEN h
    ELSE LET message == h.boxes[ptr]
         IN  [boxes |-> Without(h.boxes, ptr),
              cstrs |-> IF message # Null THEN h.cstrs \ {message} ELSE h.cstrs]

-----------------------------------------------------------------------------
(* The API base URL.                                                       *)

DefaultUrl == <<"https://xbdev.store", Slash, "api", Slash>>

ends_with_slash(url) == Len(url) > 0 /\ url[Len(url)] = Slash

\* A normalize_url that appends '/' whatever the URL ends with.
normalize_url_always_appending(url) == url \o <<Slash>>

normalize_url(url) == IF ends_with_slash(url) THEN url ELSE url \o <<Slash>>

api_base_url == apiUrl

\* The URLs the caller passes to set_custom_url.
UrlTexts ==
    { <<"https://example.com", Slash, "api">>,
      <<"https://example.com", Slash, "api", Slash>>,
      <<"h">>,
      <<Slash>> }

-----------------------------------------------------------------------------
(* What a step reports: the operation and its inputs, the envelope         *)
(* returned, the requests issued.                                          *)

NoEnv == [status |-> "none", code |-> 0, message |-> <<>>]
NoReturn == [returned |-> FALSE, ptr |-> Null, env |-> NoEnv]
Returned(m) == [returned |-> TRUE, ptr |-> m.ptr, env |-> m.env]

CallOf(who, op, args, input) == [who |-> who, op |-> op, args |-> args, input |-> input]

NoInput == [none |-> TRUE]

\* The handler hands envelope m.ptr to the foreign caller.
Return(m) ==
    /\ heap' = m.heap
    /\ ret' = Returned(m)
    /\ held' = held \cup {m.ptr}

CallerMay == ~aborted /\ caller = "idle" /\ Cardinality(held) < MaxHeld

-----------------------------------------------------------------------------
(* Exported operations.                                                    *)

\* The version Cargo.toml declares, read at build time.
CargoVersion == [some |-> TRUE, v |-> "CARGO_PKG_VERSION"]

get_sdk_version ==
    LET version == IF CargoVersion.some THEN CargoVersion.v ELSE "Unknown version"
    IN  /\ CallerMay
        /\ call' = CallOf("caller", "get_sdk_version", <<>>, NoInput)
        /\ Return(message_success(heap, <<version>>))
        /\ sent' = <<>>
        /\ UNCHANGED <<apiUrl, aborted, loops, cacheFile, manifest, files, dirs, shown, cloud, caller, installers>>

set_custom_url(custom_url) ==
    LET parsed_url == parse_c_string(heap, custom_url, "custom_url")
    IN  /\ CallerMay
        /\ call' = CallOf("caller", "set_custom_url", <<custom_url>>, NoInput)
        /\ IF ~parsed_url.ok
           THEN /\ Return(parsed_url.err)
                /\ UNCHANGED apiUrl
           ELSE LET normalized == normalize_url(parsed_url.s)
                IN  /\ apiUrl' = normalized
                    /\ Return(message_success(heap, <<"Custom URL set to ">> \o normalized))
        /\ sent' = <<>>
        /\ UNCHANGED <<aborted, loops, cacheFile, manifest, files, dirs, shown, cloud, caller, installers>>

\* The foreign caller releases an envelope it owns, or a null reference.
devstore_free_message(message) ==
    /\ ~aborted
    /\ call' = CallOf("caller", "devstore_free_message", <<>>, [ptr |-> message])
    /\ heap' = drop_message(heap, message)
    /\ held' = held \ {message}
    /\ ret' = NoReturn
    /\ sent' = <<>>
    /\ UNCHANGED <<apiUrl, aborted, loops, cacheFile, manifest, files, dirs, shown, cloud, caller, installers>>

-----------------------------------------------------------------------------
(* The HTTP transport (an external collaborator) and JSON values.          *)

\* A 64-bit number is written as its two 32-bit halves: hi * 2^32 + lo.
U64(hi, lo) == [hi |-> hi, lo |-> lo]

JStr(text) == [t |-> "str", s |-> text, n |-> U64(0, 0)]
JNum(hi, lo) == [t |-> "num", s |-> <<>>, n |-> U64(hi, lo)]
JOther == [t |-> "other", s |-> <<>>, n |-> U64(0, 0)]

None == [some |-> FALSE]
Some(v) == [some |-> TRUE, v |-> v]

\* Value::get on a parsed body: obj maps the keys present to their values.
json_get(obj, key) == IF key \in DOMAIN obj THEN Some(obj[key]) ELSE None
as_str(opt) == IF opt.some /\ opt.v.t = "str" THEN Some(opt.v.s) ELSE None
as_u64(opt) == IF opt.some /\ opt.v.t = "num" THEN Some(opt.v.n) ELSE None
unwrap_or(opt, default) == IF opt.some THEN opt.v ELSE default
\* `as u32`: the low 32 bits.
as_u32(n) == n.lo

\* Display of a JSON value: a string is quoted and U+0000 is written escaped.
json_display(v) ==
    IF v.t = "str"
    THEN <<"\"">> \o [i \in DOMAIN v.s |-> IF v.s[i] = NUL THEN "\\u0000" ELSE v.s[i]]
         \o <<"\"">>
    ELSE IF v.t = "num" THEN <<"<number>">> ELSE <<"<json>">>

\* A response: the transport delivered it or not, its status, whether the body
\* can be read, its raw text, whether that parses as JSON and the object parsed.
Resp(transport, status, readable, raw, parses, obj) ==
    [transport |-> transport, status |-> status, readable |-> readable,
     raw |-> raw, parses |-> parses, obj |-> obj]

TransportFailure == Resp(FALSE, 0, FALSE, <<>>, FALSE, <<>>)
Unreadable(status) == Resp(TRUE, status, FALSE, <<>>, FALSE, <<>>)
NotJson(status, raw) == Resp(TRUE, status, TRUE, raw, FALSE, <<>>)
JsonBody(status, obj) == Resp(TRUE, status, TRUE, <<"{json}">>, TRUE, obj)

is_success(status) == status >= 200 /\ status < 300

\* response.text().unwrap_or_else(|_| "No response message")
text_or_default(resp) == IF resp.readable THEN resp.raw ELSE <<"No response message">>

Request(method, url) == [method |-> method, url |-> url]

-----------------------------------------------------------------------------
(* The preferences directory, the notification backend, the dedup cache.   *)

Prefs == <<"prefs">>

NoFile == [exists |-> FALSE]

\* get_pref_path: create_dir_all on the preferences directory, its failure
\* ignored.
get_pref_path(d, io) == IF io.mkdir THEN d \cup {Prefs} ELSE d

get_cache_file_path(d, io) == get_pref_path(d, io)

CacheOf(ids) == [exists |-> TRUE, parses |-> TRUE, shown_ids |-> ids]
CorruptCache == [exists |-> TRUE, parses |-> FALSE, shown_ids |-> {}]

\* A load_notification_cache that finds nothing in the file.
load_notification_cache_finding_nothing(file) == {}

load_notification_cache(file) ==
    IF file.exists /\ file.parses THEN file.shown_ids ELSE {}

\* A save_notification_cache that writes nothing.
save_notification_cache_writing_nothing(file, d, cache, io) == file

\* A save_notification_cache that writes an empty set.
save_notification_cache_truncating(file, d, cache, io) ==
    IF io.write /\ Prefs \in d THEN CacheOf({}) ELSE file

\* fs::write of the whole set; a failure is swallowed.
save_notification_cache(file, d, cache, io) ==
    IF io.write /\ Prefs \in d THEN CacheOf(cache) ELSE file

\* The notification backend's answer to one send_notification call.
Backends == {"unavailable", "init_failed", "dialog_failed", "ok"}

\* A send_notification that reports a dialog whatever the backend answers.
send_notification_fn_always_displaying(h, title, body, sdl) ==
    [m |-> message_success(h, <<"Notification sent: ">>), displayed |-> TRUE]

send_notification_fn(h, title, body, sdl) ==
    LET t == parse_c_string(h, title, "title")
        b == parse_c_string(h, body, "body")
    IN  IF ~t.ok THEN [m |-> t.err, displayed |-> FALSE]
        ELSE IF ~b.ok THEN [m |-> b.err, displayed |-> FALSE]
        ELSE IF sdl = "unavailable"
        THEN [m |-> message_error(h, <<"Error: SDL2 is not available on this platform or the SDL2 library not found.">>),
              displayed |-> FALSE]
        ELSE IF sdl = "init_failed"
        THEN [m |-> message_error(h, <<"Error: SDL2 init failed: ", "<e>">>),
              displayed |-> FALSE]
        ELSE IF sdl = "dialog_failed"
        THEN [m |-> message_error(h, <<"Error: SDL2 messagebox failed: ", "<e>">>),
              displayed |-> FALSE]
        ELSE [m |-> message_success(h, <<"Notification sent: ">> \o t.s \o <<" - ">> \o b.s),
              displayed |-> TRUE]

\* The ids the model's server hands out, as the cache stores them.
NotifIds == {5, 6}

Bump(n) == IF n < MaxShown THEN n + 1 ELSE n

\* The outcome of one check_and_show_notification run: the envelope built (m),
\* or a panic; the request issued; the cache file and directories afterwards;
\* the id send_notification was called for (tried) and whether a dialog showed.
NotifOutcome(panic, m, req, file, d, tried, displayed) ==
    [panic |-> panic, m |-> m, sent |-> req, cacheFile |-> file, dirs |-> d,
     tried |-> tried, displayed |-> displayed]

NoEnvelope(h) == [heap |-> h, ptr |-> Null, env |-> NoEnv]

check_and_show_notification_fn(h, product_id, resp, sdl, io) ==
    LET parsed == parse_c_string(h, product_id, "product_id")
        Quiet(m, req) == NotifOutcome(FALSE, m, req, cacheFile, dirs, None, FALSE)
    IN
    IF ~parsed.ok THEN Quiet(parsed.err, <<>>)
    ELSE
    LET url == api_base_url \o <<"get-latest-notification-for-app", Slash, "?product_id=">>
               \o parsed.s
        req == <<Request("GET", url)>>
    IN
    IF ~resp.transport
    THEN Quiet(message_error(h, <<"HTTP request failed: ", "<e>">>), req)
    ELSE IF ~is_success(resp.status)
    THEN Quiet(message_info(h, <<"No notification returned from server.">>), req)
    ELSE IF ~resp.readable
    THEN Quiet(message_error(h, <<"Error: Failed to read response text, ", "<e>">>), req)
    ELSE IF ~resp.parses
    THEN Quiet(message_error(h, <<"Error: Failed to parse JSON, ", "<e>">>), req)
    ELSE
    LET notif_id == as_u32(unwrap_or(as_u64(json_get(resp.obj, "notification_id")), U64(0, 0)))
        title == unwrap_or(as_str(json_get(resp.obj, "title")), <<"Notification">>)
        message == unwrap_or(as_str(json_get(resp.obj, "message")), <<>>)
    IN
    IF message = <<>> \/ notif_id = 0
    THEN Quiet(message_info(h, <<"No notification to show.">>), req)
    ELSE
    LET d1 == get_cache_file_path(dirs, io)
        cache == load_notification_cache(IF Prefs \in d1 THEN cacheFile ELSE NoFile)
    IN
    IF notif_id \in cache
    THEN NotifOutcome(FALSE, message_info(h, <<"Notification already shown.">>), req,
                      cacheFile, d1, None, FALSE)
    ELSE
    LET c_title == CStringNew(title)
        c_body == CStringNew(message)
    IN
    IF ~c_title.ok \/ ~c_body.ok
    THEN NotifOutcome(TRUE, NoEnvelope(h), req, cacheFile, d1, None, FALSE)
    ELSE
    LET notification_result == send_notification_fn(h, CStrOf(c_title.s), CStrOf(c_body.s), sdl)
        h1 == drop_message(notification_result.m.heap, notification_result.m.ptr)
        cache1 == cache \cup {notif_id}
        file1 == save_notification_cache(cacheFile, d1, cache1, io)
    IN  NotifOutcome(FALSE, message_success(h1, <<"Notification shown.">>), req, file1, d1,
                     Some(notif_id), notification_result.displayed)

\* The dialog counters after an outcome.
Count(o) ==
    IF o.tried.some
    THEN [shown EXCEPT ![o.tried.v] =
              [tried |-> Bump(@.tried),
               displayed |-> IF o.displayed THEN Bump(@.displayed) ELSE @.displayed]]
    ELSE shown

-----------------------------------------------------------------------------
(* The filesystem: paths, directories, regular files.                      *)

Up == ".."

\* The path a text names: its components, '/' separating them.
PathOf(text) == SelectSeq(text, LAMBDA c : c # Slash)

\* What the operating system makes of a path: ".." steps to the parent.
RECURSIVE Resolve(_)
Resolve(path) ==
    IF path = <<>> THEN <<>>
    ELSE LET before == Resolve(SubSeq(path, 1, Len(path) - 1))
             last == path[Len(path)]
         IN  IF last = Up
             THEN IF before = <<>> THEN <<>> ELSE SubSeq(before, 1, Len(before) - 1)
             ELSE Append(before, last)

IsPrefix(p, q) == Len(p) <= Len(q) /\ SubSeq(q, 1, Len(p)) = p

\* A node that is neither a regular file nor a directory (a FIFO).
Specials == {<<"fifo">>}

IsDirectory(d, path) == path = <<>> \/ path \in d

\* ".." can be followed only out of a directory that exists.
Traversable(d, path) ==
    \A n \in DOMAIN path :
        path[n] = Up => IsDirectory(d, Resolve(SubSeq(path, 1, n - 1)))

is_dir(d, f, path) == Traversable(d, path) /\ IsDirectory(d, Resolve(path))
is_file(d, f, path) == Traversable(d, path) /\ Resolve(path) \in DOMAIN f
exists(d, f, path) ==
    is_dir(d, f, path) \/ is_file(d, f, path)
        \/ (Traversable(d, path) /\ Resolve(path) \in Specials)

\* The directories create_dir_all(path) walks through.
Ancestors(path) == {Resolve(SubSeq(path, 1, n)) : n \in 0..Len(path)}

\* fs::create_dir_all: fails when a component is not a directory.
create_dir_all(d, f, path) ==
    IF \E a \in Ancestors(path) : a \in DOMAIN f \/ a \in Specials
    THEN [ok |-> FALSE, dirs |-> d]
    ELSE [ok |-> TRUE, dirs |-> d \cup (Ancestors(path) \ {<<>>})]

Parent(path) == SubSeq(path, 1, Len(path) - 1)

\* fs::File::create then io::copy: the parent must be a directory and the
\* path must not be one.
write_file(d, f, path, data) ==
    LET target == Resolve(path)
    IN  IF \/ ~Traversable(d, path)
           \/ target = <<>> \/ target \in d \/ target \in Specials
           \/ ~IsDirectory(d, Parent(target))
        THEN [ok |-> FALSE, files |-> f]
        ELSE [ok |-> TRUE, files |-> (target :> data) @@ f]

-----------------------------------------------------------------------------
(* Archives: a sequence of entries, each a name and the bytes stored.      *)

\* An entry name: absolute or not, its components, and whether it ends in '/'.
EntryName(abs, comps, dir) == [abs |-> abs, comps |-> comps, dir |-> dir]
Entry(name, data) == [name |-> name, data |-> data]

\* Path::join: an absolute name replaces the base.
join(base, name) == IF name.abs THEN name.comps ELSE base \o name.comps

\* A file name of the source tree that is not valid UTF-8, and what
\* to_string_lossy makes of it (the bad byte becomes U+FFFD).
NonUtf8Name == "n\\xFF"
to_string_lossy(c) == IF c = NonUtf8Name THEN "n\\uFFFD" ELSE c

\* The order in which a directory lists its names.
ReadDirOrder == <<"a", "b", "d", NonUtf8Name, "save", "dest", "escape.txt">>
Rank(c) == CHOOSE i \in DOMAIN ReadDirOrder : ReadDirOrder[i] = c

RECURSIVE WalksBefore(_, _)
WalksBefore(p, q) ==
    IF p = <<>> THEN q # <<>>
    ELSE IF q = <<>> THEN FALSE
    ELSE IF p[1] = q[1] THEN WalksBefore(Tail(p), Tail(q))
    ELSE Rank(p[1]) < Rank(q[1])

\* WalkDir::new(folder): the regular files under folder, depth first, as
\* paths relative to it (path.strip_prefix(folder_path)).
RECURSIVE InWalkOrder(_)
InWalkOrder(rels) ==
    IF rels = {} THEN <<>>
    ELSE LET first == CHOOSE p \in rels : \A q \in rels \ {p} : WalksBefore(p, q)
         IN  <<first>> \o InWalkOrder(rels \ {first})

WalkDir(f, folder) ==
    InWalkOrder({SubSeq(p, Len(folder) + 1, Len(p)) :
                     p \in {q \in DOMAIN f : IsPrefix(folder, q) /\ q # folder}})

Names(archive) == {archive[i].name : i \in DOMAIN archive}

\* What goes wrong while packing: the directory walk, the read of the
\* read-th file (0: none), a step of the archive writer.
PackIo(walk, read, zip) == [walk |-> walk, read |-> read, zip |-> zip]

Packed(archive) == [ok |-> TRUE, archive |-> archive, finished |-> TRUE]
\* A packing step whose failure does not stop the operation.
PackErrorIgnored(text) == [ok |-> TRUE, err |-> text, archive |-> <<>>, finished |-> FALSE]
PackError(text) == [ok |-> FALSE, err |-> text, finished |-> FALSE]

\* The loop over the walked files of upload_save_to_server.
RECURSIVE PackFolder(_, _, _, _, _, _)
PackFolder(f, folder, walk, i, acc, io) ==
    IF i > Len(walk) THEN Packed(acc)
    ELSE LET relative_path == walk[i]
             name == EntryName(FALSE, [k \in DOMAIN relative_path |->
                                           to_string_lossy(relative_path[k])], FALSE)
         IN  IF io.read = i
             THEN PackError(<<"Error: Failed to read file in folder: ", "<e>">>)
             ELSE IF io.zip = "start" \/ name \in Names(acc)
             THEN PackError(<<"Error: Failed to add file to zip: ", "<e>">>)
             ELSE IF io.zip = "write"
             THEN PackError(<<"Error: Failed to write file data to zip: ", "<e>">>)
             ELSE PackFolder(f, folder, walk, i + 1,
                             Append(acc, Entry(name, f[folder \o relative_path])), io)

\* The archive upload_save_to_server builds from a path, or its error.
pack(d, f, path, io) ==
    IF ~exists(d, f, path) THEN PackError(<<"Error: File or folder does not exist">>)
    ELSE IF is_file(d, f, path)
    THEN LET filename == path[Len(path)]
         IN  IF io.read = 1 THEN PackError(<<"Error: Failed to read file">>)
             ELSE IF io.zip = "start"
             THEN PackError(<<"Error: Failed to start zip file: ", "<e>">>)
             ELSE IF io.zip = "write"
             THEN PackError(<<"Error: Failed to write file data to zip: ", "<e>">>)
             ELSE IF io.zip = "finish"
             THEN PackError(<<"Error: Failed to finish zip archive: ", "<e>">>)
             ELSE Packed(<<Entry(EntryName(FALSE, <<filename>>, FALSE), f[Resolve(path)])>>)
    ELSE IF is_dir(d, f, path)
    THEN IF ~io.walk THEN PackError(<<"Error: traversing directory: ", "<e>">>)
         ELSE LET built == PackFolder(f, Resolve(path), WalkDir(f, Resolve(path)), 1, <<>>, io)
              IN  IF ~built.ok THEN built
                  ELSE IF io.zip = "finish"
                  THEN PackError(<<"Error: Failed to finish zip archive: ", "<e>">>)
                  ELSE built
    ELSE PackError(<<"Error: Path is neither a file nor a directory">>)

\* The error texts of the two unpack loops.
SaveErrors ==
    [dir |-> <<"Error: Failed to create directory: ", "<e>">>,
     parent |-> <<"Error: Failed to create parent directory: ", "<e>">>,
     create |-> <<"Error: Failed to create output file: ", "<e>">>,
     copy |-> <<"Error: Failed to copy file contents: ", "<e>">>]
UpdateErrors ==
    [dir |-> <<"Error: Failed to create directory: ", "<e>">>,
     parent |-> <<"Error: Failed to create parent directory">>,
     create |-> <<"Error: Failed to create file: ", "<e>">>,
     copy |-> <<"Error: Failed to write file contents">>]

\* What io::copy leaves of a file when it fails: the file was created and
\* holds less than the entry.
Partial == 0

\* An unpack that goes on to report success after a failure.
UnpackedWhateverFailed(ok, err, d, f, done) ==
    [ok |-> TRUE, err |-> err, dirs |-> d, files |-> f, done |-> done]

\* What stops the unpacker from outside: the filesystem call of entry
\* io.failAt fails (0: none): the creation of the directory or file, or, when
\* io.copy, the copy of the contents into the file created.
Unpacked(ok, err, d, f, done) == [ok |-> ok, err |-> err, dirs |-> d, files |-> f, done |-> done]

\* The loop over the entries of download_save_from_server and of
\* download_update_for_product (errs: the texts of the one or the other).
RECURSIVE unpack(_, _, _, _, _, _, _)
unpack(archive, i, dest, d, f, io, errs) ==
    IF i > Len(archive) THEN Unpacked(TRUE, <<>>, d, f, i - 1)
    ELSE LET file == archive[i]
             outpath == join(dest, file.name)
         IN  IF file.name.dir
             THEN LET made == create_dir_all(d, f, outpath)
                  IN  IF io.failAt = i \/ ~made.ok
                      THEN Unpacked(FALSE, errs.dir, d, f, i - 1)
                      ELSE unpack(archive, i + 1, dest, made.dirs, f, io, errs)
             ELSE LET p == Parent(outpath)
                      made == IF outpath # <<>> /\ ~exists(d, f, p)
                              THEN create_dir_all(d, f, p)
                              ELSE [ok |-> TRUE, dirs |-> d]
                      wrote == write_file(made.dirs, f, outpath, file.data)
                      created == write_file(made.dirs, f, outpath, Partial)
                  IN  IF ~made.ok
                      THEN Unpacked(FALSE, errs.parent, d, f, i - 1)
                      ELSE IF (io.failAt = i /\ ~io.copy) \/ ~wrote.ok
                      THEN Unpacked(FALSE, errs.create, made.dirs, f, i - 1)
                      ELSE IF io.failAt = i
                      THEN Unpacked(FALSE, errs.copy, made.dirs, created.files, i - 1)
                      ELSE unpack(archive, i + 1, dest, made.dirs, wrote.files, io, errs)

\* What the environment decides for one run: the server's response, the
\* notification backend's answer, which filesystem calls succeed.
\* mkdir: directories can be created; write: the state file can be written;
\* failAt: the entry whose filesystem call fails while unpacking (0: none).
IoOf(mkdir, write, failAt) ==
    [mkdir |-> mkdir, write |-> write, failAt |-> failAt, copy |-> FALSE]
\* The copy of the contents of entry failAt fails.
IoCopyFails(failAt) == [mkdir |-> TRUE, write |-> TRUE, failAt |-> failAt, copy |-> TRUE]
Ios == {IoOf(TRUE, TRUE, 0), IoOf(TRUE, FALSE, 0), IoOf(FALSE, FALSE, 0)}

send_notification(title, body, sdl) ==
    LET r == send_notification_fn(heap, title, body, sdl)
    IN  /\ CallerMay
        /\ call' = CallOf("caller", "send_notification", <<title, body>>, [sdl |-> sdl])
        /\ Return(r.m)
        /\ sent' = <<>>
        /\ UNCHANGED <<apiUrl, aborted, loops, cacheFile, manifest, files, dirs, shown, cloud, caller, installers>>

check_and_show_notification(product_id, resp, sdl, io) ==
    \E o \in {check_and_show_notification_fn(heap, product_id, resp, sdl, io)} :
        /\ CallerMay
        /\ call' = CallOf("caller", "check_and_show_notification", <<product_id>>,
                          [resp |-> resp, sdl |-> sdl, io |-> io])
        /\ IF o.panic
           THEN /\ aborted' = TRUE
                /\ ret' = NoReturn
                /\ UNCHANGED <<heap, held>>
           ELSE /\ Return(o.m)
                /\ UNCHANGED aborted
        /\ sent' = o.sent
        /\ cacheFile' = o.cacheFile
        /\ dirs' = o.dirs
        /\ shown' = Count(o)
        /\ UNCHANGED <<apiUrl, loops, manifest, files, cloud, caller, installers>>

\* std::thread::spawn of the loop: the new thread is about to run a cycle.
init_simple_loop(product_id) ==
    LET parsed_product_id == parse_c_string(heap, product_id, "product_id")
    IN  /\ CallerMay
        /\ Len(loops) < MaxLoops
        /\ call' = CallOf("caller", "init_simple_loop", <<product_id>>, NoInput)
        /\ IF ~parsed_product_id.ok
           THEN /\ Return(parsed_product_id.err)
                /\ UNCHANGED loops
           ELSE /\ loops' = Append(loops, [pc |-> "cycle", id |-> parsed_product_id.s])
                /\ Return(message_success(heap, <<"Background notification loop started.">>))
        /\ sent' = <<>>
        /\ UNCHANGED <<apiUrl, aborted, cacheFile, manifest, files, dirs, shown, cloud, caller, installers>>

\* One cycle of loop t: check_and_show_notification on the loop's id, then
\* drop_message on its envelope; the thread goes to sleep.
LoopCycle(t, resp, sdl, io) ==
    \E c_id \in {CStringNew(loops[t].id)} :
    \E o \in {check_and_show_notification_fn(heap, CStrOf(c_id.s), resp, sdl, io)} :
        /\ ~aborted
        /\ loops[t].pc = "cycle"
        /\ call' = CallOf("loop", "check_and_show_notification", <<CStrOf(c_id.s)>>,
                          [resp |-> resp, sdl |-> sdl, io |-> io])
        /\ IF ~c_id.ok \/ o.panic
           THEN /\ aborted' = TRUE
                /\ loops' = [loops EXCEPT ![t].pc = "crashed"]
                /\ UNCHANGED heap
           ELSE /\ heap' = drop_message(o.m.heap, o.m.ptr)
                /\ loops' = [loops EXCEPT ![t].pc = "sleep"]
                /\ UNCHANGED aborted
        /\ ret' = NoReturn
        /\ sent' = o.sent
        /\ cacheFile' = o.cacheFile
        /\ dirs' = o.dirs
        /\ shown' = Count(o)
        /\ UNCHANGED <<apiUrl, held, manifest, files, cloud, caller, installers>>

\* std::thread::sleep(140 s) is over.
LoopWake(t) ==
    /\ ~aborted
    /\ loops[t].pc = "sleep"
    /\ loops' = [loops EXCEPT ![t].pc = "cycle"]
    /\ call' = CallOf("loop", "sleep", <<>>, NoInput)
    /\ ret' = NoReturn
    /\ sent' = <<>>
    /\ UNCHANGED <<apiUrl, heap, held, aborted, cacheFile, manifest, files, dirs, shown, cloud, caller, installers>>

get_version_from_id(package_id, resp) ==
    LET parsed == parse_c_string(heap, package_id, "package_id")
        url == api_base_url \o <<"version-hex", Slash>>
        version == json_get(resp.obj, "version")
    IN  /\ CallerMay
        /\ call' = CallOf("caller", "get_version_from_id", <<package_id>>, [resp |-> resp])
        /\ IF ~parsed.ok
           THEN Return(parsed.err) /\ sent' = <<>>
           ELSE /\ sent' = <<Request("GET", url)>>
                /\ IF ~resp.transport
                   THEN Return(message_error(heap, <<"Request error: ", "<e>">>))
                   ELSE IF is_success(resp.status)
                   THEN IF resp.readable /\ resp.parses /\ version.some
                        THEN Return(message_success(heap, json_display(version.v)))
                        ELSE Return(message_info(heap, <<"Response: ">> \o text_or_default(resp)))
                   ELSE Return(message_error(heap, <<"Request failed: ">> \o text_or_default(resp)))
        /\ UNCHANGED <<apiUrl, aborted, loops, cacheFile, manifest, files, dirs, shown, cloud, caller, installers>>

is_devstore_online(resp) ==
    LET url == api_base_url \o <<"status-check">>
    IN  /\ CallerMay
        /\ call' = CallOf("caller", "is_devstore_online", <<>>, [resp |-> resp])
        /\ sent' = <<Request("GET", url)>>
        /\ IF ~resp.transport
           THEN Return(message_error(heap, <<"Network error: ", "<e>">>))
           ELSE IF resp.status = 200
           THEN Return(message_with_code(heap, Success, resp.status, <<"Devstore is online.">>))
           ELSE IF resp.status = 503
           THEN Return(message_with_code(heap, Warning, resp.status,
                                         <<"Devstore is under maintenance.">>))
           ELSE Return(message_with_code(heap, Warning, resp.status,
                                         <<"Devstore returned status ", "<status>">>))
        /\ UNCHANGED <<apiUrl, aborted, loops, cacheFile, manifest, files, dirs, shown, cloud, caller, installers>>

get_current_username(user_secret, resp) ==
    LET parsed == parse_c_string(heap, user_secret, "user_secret")
        url == api_base_url \o <<"get-username-by-secret", Slash>>
        text == text_or_default(resp)
        status == as_str(json_get(resp.obj, "status"))
        username == as_str(json_get(resp.obj, "username"))
        msg == unwrap_or(as_str(json_get(resp.obj, "message")), <<"Unknown error">>)
    IN  /\ CallerMay
        /\ call' = CallOf("caller", "get_current_username", <<user_secret>>, [resp |-> resp])
        /\ IF ~parsed.ok
           THEN Return(parsed.err) /\ sent' = <<>>
           ELSE /\ sent' = <<Request("POST", url)>>
                /\ IF ~resp.transport
                   THEN Return(message_error(heap, <<"Error: Network error: ", "<e>">>))
                   ELSE IF ~is_success(resp.status)
                   THEN Return(message_error(heap,
                            <<"Error: Request failed (status ", "<status>", "): ">> \o text))
                   ELSE IF ~(resp.readable /\ resp.parses)
                   THEN Return(message_error(heap,
                            <<"Error: Failed to parse response JSON: ", "<e>">>))
                   ELSE IF status = Some(<<"success">>)
                   THEN IF username.some
                        THEN Return(message_success(heap, username.v))
                        ELSE Return(message_error(heap, <<"Error: Username missing in response">>))
                   ELSE IF status = Some(<<"error">>)
                   THEN Return(message_error(heap, <<"Error: Server error: ">> \o msg))
                   ELSE IF status.some
                   THEN Return(message_error(heap,
                            <<"Error: Unexpected status in response: ">> \o status.v))
                   ELSE Return(message_error(heap, <<"Error: Missing status in response">>))
        /\ UNCHANGED <<apiUrl, aborted, loops, cacheFile, manifest, files, dirs, shown, cloud, caller, installers>>

verify_download_v2(package_id, resp, sdl) ==
    LET parsed == parse_c_string(heap, package_id, "package_id")
        url == api_base_url \o <<"verify-download", Slash>>
        txt == text_or_default(resp)
        status == as_str(json_get(resp.obj, "status"))
        msg == unwrap_or(as_str(json_get(resp.obj, "message")), <<"Unknown error">>)
        c_title == CStringNew(<<"Download Verification Failed">>)
        c_msg == CStringNew(msg)
        notification_result == send_notification_fn(heap, CStrOf(c_title.s), CStrOf(c_msg.s), sdl)
        h1 == drop_message(notification_result.m.heap, notification_result.m.ptr)
    IN  /\ CallerMay
        /\ call' = CallOf("caller", "verify_download_v2", <<package_id>>,
                          [resp |-> resp, sdl |-> sdl])
        /\ IF ~parsed.ok
           THEN Return(parsed.err) /\ sent' = <<>> /\ UNCHANGED aborted
           ELSE /\ sent' = <<Request("POST", url)>>
                /\ IF ~resp.transport
                   THEN Return(message_error(heap, <<"Error: Network error: ", "<e>">>))
                        /\ UNCHANGED aborted
                   ELSE IF ~(resp.readable /\ resp.parses)
                   THEN Return(message_error(heap, <<"Error: Invalid server response: ">> \o txt))
                        /\ UNCHANGED aborted
                   ELSE IF status = Some(<<"success">>)
                   THEN Return(message_success(heap, <<"Download verified successfully.">>))
                        /\ UNCHANGED aborted
                   ELSE IF status = Some(<<"error">>)
                   THEN IF ~c_title.ok \/ ~c_msg.ok
                        THEN /\ aborted' = TRUE
                             /\ ret' = NoReturn
                             /\ UNCHANGED <<heap, held>>
                        ELSE Return(message_error(h1, <<"Error: ">> \o msg))
                             /\ UNCHANGED aborted
                   ELSE Return(message_error(heap, <<"Error: Unexpected response: ">> \o txt))
                        /\ UNCHANGED aborted
        /\ UNCHANGED <<apiUrl, loops, cacheFile, manifest, files, dirs, shown, cloud, caller, installers>>

\* A response that carries an archive: zip says whether the bytes open as one.
ArchiveResp(transport, status, readable, zip, archive) ==
    [transport |-> transport, status |-> status, readable |-> readable,
     raw |-> <<"<body>">>, zip |-> zip, archive |-> archive]

upload_save_to_server(package_id, user_secret, file_or_folder_path, io, resp) ==
    LET p1 == parse_c_string(heap, package_id, "package_id")
        p2 == parse_c_string(heap, user_secret, "user_secret")
        p3 == parse_c_string(heap, file_or_folder_path, "file_or_folder_path")
        built == pack(dirs, files, PathOf(p3.s), io)
        url == api_base_url \o <<"cloud-saves", Slash>>
        text == text_or_default(resp)
        msg == json_get(resp.obj, "message")
        form == [user_secret |-> p2.s, product_id |-> p1.s, save_file |-> built.archive,
                 finished |-> built.finished]
    IN  /\ CallerMay
        /\ call' = CallOf("caller", "upload_save_to_server",
                          <<package_id, user_secret, file_or_folder_path>>,
                          [io |-> io, resp |-> resp])
        /\ IF ~p1.ok THEN Return(p1.err) /\ sent' = <<>> /\ UNCHANGED cloud
           ELSE IF ~p2.ok THEN Return(p2.err) /\ sent' = <<>> /\ UNCHANGED cloud
           ELSE IF ~p3.ok THEN Return(p3.err) /\ sent' = <<>> /\ UNCHANGED cloud
           ELSE IF ~built.ok
           THEN Return(message_error(heap, built.err)) /\ sent' = <<>> /\ UNCHANGED cloud
           ELSE /\ sent' = <<[method |-> "POST", url |-> url, form |-> form]>>
                /\ IF ~resp.transport
                   THEN Return(message_error(heap, <<"Error: ", "<e>">>)) /\ UNCHANGED cloud
                   ELSE IF is_success(resp.status)
                   THEN /\ cloud' = Some(built.archive)
                        /\ IF resp.readable /\ resp.parses /\ msg.some
                           THEN Return(message_success(heap, <<"Upload successful: ">>
                                                              \o json_display(msg.v)))
                           ELSE Return(message_success(heap, <<"Upload successful: ">> \o text))
                   ELSE Return(message_error(heap, <<"Upload failed: ">> \o text))
                        /\ UNCHANGED cloud
        /\ UNCHANGED <<apiUrl, aborted, loops, cacheFile, manifest, files, dirs, shown, caller, installers>>

download_save_from_server(package_id, user_secret, extract_path, resp, io) ==
    LET p1 == parse_c_string(heap, package_id, "package_id")
        p2 == parse_c_string(heap, user_secret, "user_secret")
        p3 == parse_c_string(heap, extract_path, "extract_path")
        url == api_base_url \o <<"cloud-saves", Slash>>
        got == unpack(resp.archive, 1, PathOf(p3.s), dirs, files, io, SaveErrors)
    IN  /\ CallerMay
        /\ call' = CallOf("caller", "download_save_from_server",
                          <<package_id, user_secret, extract_path>>,
                          [io |-> io, resp |-> resp])
        /\ IF ~p1.ok THEN Return(p1.err) /\ sent' = <<>> /\ UNCHANGED <<files, dirs>>
           ELSE IF ~p2.ok THEN Return(p2.err) /\ sent' = <<>> /\ UNCHANGED <<files, dirs>>
           ELSE IF ~p3.ok THEN Return(p3.err) /\ sent' = <<>> /\ UNCHANGED <<files, dirs>>
           ELSE /\ sent' = <<Request("GET", url)>>
                /\ IF ~resp.transport
                   THEN Return(message_error(heap, <<"Error: ", "<e>">>))
                        /\ UNCHANGED <<files, dirs>>
                   ELSE IF ~is_success(resp.status)
                   THEN Return(message_error(heap, <<"Download failed: ">> \o text_or_default(resp)))
                        /\ UNCHANGED <<files, dirs>>
                   ELSE IF ~resp.readable
                   THEN Return(message_error(heap, <<"Error: Failed to read response bytes: ", "<e>">>))
                        /\ UNCHANGED <<files, dirs>>
                   ELSE IF ~resp.zip
                   THEN Return(message_error(heap, <<"Error: Failed to open zip archive: ", "<e>">>))
                        /\ UNCHANGED <<files, dirs>>
                   ELSE /\ files' = got.files
                        /\ dirs' = got.dirs
                        /\ IF got.ok
                           THEN Return(message_success(heap, <<"Download and extraction successful.">>))
                           ELSE Return(message_error(heap, got.err))
        /\ UNCHANGED <<apiUrl, aborted, loops, cacheFile, manifest, shown, cloud, caller, installers>>

\* The install directories the suffix loop can come up with (of the 26^3).
Suffixes == {"update_aaa", "update_aab"}

base_update == Prefs \o <<"update">>

ManifestOf(path) == [exists |-> TRUE, path |-> path]

\* candidate is the directory the random suffix loop ends with; when every
\* candidate exists the loop never ends and the calling thread spins in it.
download_update_for_product(package_id, resp, io, candidate) ==
    LET parsed == parse_c_string(heap, package_id, "package_id")
        url == api_base_url \o <<"get_latest_patch", Slash>>
        d1 == get_pref_path(dirs, io)
        taken == exists(d1, files, base_update)
        free == {c \in Suffixes : ~exists(d1, files, Prefs \o <<c>>)}
        update_path == IF taken THEN Prefs \o <<candidate>> ELSE base_update
        made == create_dir_all(d1, files, update_path)
        got == unpack(resp.archive, 1, update_path, made.dirs, files, io, UpdateErrors)
        fetched == parsed.ok /\ resp.transport /\ is_success(resp.status) /\ resp.readable
    IN  /\ CallerMay
        /\ candidate \in (IF fetched /\ taken /\ free # {} THEN free ELSE {"update_aaa"})
        /\ call' = CallOf("caller", "download_update_for_product", <<package_id>>,
                          [io |-> io, resp |-> resp, candidate |-> candidate])
        /\ sent' = IF parsed.ok THEN <<Request("POST", url)>> ELSE <<>>
        /\ IF ~parsed.ok
           THEN Return(parsed.err) /\ UNCHANGED <<files, dirs, manifest, caller>>
           ELSE IF ~resp.transport
           THEN Return(message_error(heap, <<"Error: Network error: ", "<e>">>))
                /\ UNCHANGED <<files, dirs, manifest, caller>>
           ELSE IF ~is_success(resp.status)
           THEN Return(message_error(heap, <<"Error: Request failed: ">> \o text_or_default(resp)))
                /\ UNCHANGED <<files, dirs, manifest, caller>>
           ELSE IF ~resp.readable
           THEN Return(message_error(heap, <<"Error: Failed to read response bytes: ", "<e>">>))
                /\ UNCHANGED <<files, dirs, manifest, caller>>
           ELSE IF taken /\ free = {}
           THEN /\ caller' = "spinning"
                /\ ret' = NoReturn
                /\ dirs' = d1
                /\ UNCHANGED <<heap, held, files, manifest>>
           ELSE IF ~io.mkdir \/ ~made.ok
           THEN Return(message_error(heap, <<"Error: Failed to create update dir: ", "<e>">>))
                /\ dirs' = d1
                /\ UNCHANGED <<files, manifest, caller>>
           ELSE IF ~resp.zip
           THEN Return(message_error(heap, <<"Error: Failed to open zip archive: ", "<e>">>))
                /\ dirs' = made.dirs
                /\ UNCHANGED <<files, manifest, caller>>
           ELSE IF ~got.ok
           THEN Return(message_error(heap, got.err))
                /\ dirs' = got.dirs
                /\ files' = got.files
                /\ UNCHANGED <<manifest, caller>>
           ELSE /\ dirs' = got.dirs
                /\ files' = got.files
                /\ manifest' = IF io.write THEN ManifestOf(update_path) ELSE manifest
                /\ Return(message_success(heap, <<"Update downloaded and extracted successfully.">>))
                /\ UNCHANGED caller
        /\ UNCHANGED <<apiUrl, aborted, loops, cacheFile, shown, cloud, installers>>

-----------------------------------------------------------------------------
(* The inputs the model draws: arguments, responses, archives, trees.      *)

ProductIds == {<<"pkg">>}
IdArgs == CArgs(ProductIds)

StatusResps ==
    { TransportFailure,
      Unreadable(200),
      NotJson(500, <<"oops">>),
      NotJson(200, <<"<html>", NUL>>),
      JsonBody(200, [status |-> JStr(<<"success">>), username |-> JStr(<<"bob", NUL>>)]),
      JsonBody(200, [status |-> JStr(<<"success">>)]),
      JsonBody(200, [status |-> JStr(<<"error">>), message |-> JStr(<<"denied">>)]),
      JsonBody(200, [status |-> JStr(<<"error">>), message |-> JStr(<<"de", NUL, "nied">>)]),
      JsonBody(200, [status |-> JStr(<<"error">>)]),
      JsonBody(200, [status |-> JStr(<<"later">>)]),
      JsonBody(200, [version |-> JStr(<<"1.2">>), message |-> JStr(<<"stored">>)]) }

OnlineResps == {TransportFailure, Unreadable(200), Unreadable(503), Unreadable(404)}

Notification(id, title, message) ==
    JsonBody(200, [notification_id |-> id, title |-> title, message |-> message])

\* Responses that end a notification run before the cache is read.
QuietResps ==
    { TransportFailure,
      Unreadable(200),
      NotJson(404, <<"not found">>),
      NotJson(200, <<"<html>">>),
      Notification(JNum(0, 0), JStr(<<"Hi">>), JStr(<<"Hello">>)),
      Notification(JNum(1, 0), JStr(<<"Hi">>), JStr(<<"Hello">>)),
      Notification(JNum(0, 5), JStr(<<"Hi">>), JStr(<<>>)),
      JsonBody(200, [notification_id |-> JStr(<<"5">>), message |-> JStr(<<"Hello">>)]) }

\* Responses that name a notification to show.
ShowResps ==
    { Notification(JNum(0, 5), JStr(<<"Hi">>), JStr(<<"Hello">>)),
      Notification(JNum(0, 6), JStr(<<"Hi">>), JStr(<<"Hello">>)),
      Notification(JNum(1, 5), JStr(<<"Hi">>), JStr(<<"Hello">>)),
      Notification(JNum(0, 5), JStr(<<"H", NUL, "i">>), JStr(<<"Hello">>)),
      Notification(JNum(0, 6), JStr(<<>>), JStr(<<"Hello">>)),
      JsonBody(200, [notification_id |-> JNum(0, 6), message |-> JStr(<<"Hello">>)]) }

NotifResps == QuietResps \cup ShowResps

IoOk == IoOf(TRUE, TRUE, 0)

\* What the environment does in one notification run; the backend and the
\* filesystem matter only to a run that gets as far as the cache.
NotifEnvs ==
    {[resp |-> r, sdl |-> "ok", io |-> IoOk] : r \in QuietResps}
    \cup {[resp |-> r, sdl |-> sdl, io |-> io] :
              r \in ShowResps, sdl \in {"ok", "dialog_failed"}, io \in Ios}

Data == {1, 2}

SaveDir == <<"save">>
DestDir == <<"dest">>

\* The source trees: which files the save directory holds.
SaveTrees ==
    { (<<"save", "a">> :> 1),
      (<<"save", "a">> :> 1) @@ (<<"save", "b">> :> 2),
      (<<"save", "a">> :> 2) @@ (<<"save", "d", "a">> :> 1) @@ (<<"save", "b">> :> 1),
      (<<"save", "d", "b">> :> 2),
      (<<"save", "a">> :> 1) @@ (<<"save", NonUtf8Name>> :> 2),
      <<>> }

DirsOf(f) == UNION {{SubSeq(p, 1, n) : n \in 1..(Len(p) - 1)} : p \in DOMAIN f}

FileEntry(comps, data) == Entry(EntryName(FALSE, comps, FALSE), data)
DirEntry(comps) == Entry(EntryName(FALSE, comps, TRUE), 0)

\* Archives a server can answer with, besides the save it holds.
ServedArchives ==
    { <<>>,
      <<FileEntry(<<"a">>, 2)>>,
      <<DirEntry(<<"d">>), FileEntry(<<"d", "a">>, 1), FileEntry(<<"b">>, 2)>>,
      <<FileEntry(<<"a">>, 1), FileEntry(<<"a", "b">>, 2)>>,
      <<FileEntry(<<Up, "escape.txt">>, 1)>>,
      <<Entry(EntryName(TRUE, <<"escape.txt">>, FALSE), 2)>> }

ArchiveResps(archives) ==
    { ArchiveResp(FALSE, 0, FALSE, FALSE, <<>>),
      ArchiveResp(TRUE, 404, TRUE, FALSE, <<>>),
      ArchiveResp(TRUE, 200, FALSE, FALSE, <<>>),
      ArchiveResp(TRUE, 200, TRUE, FALSE, <<>>) }
    \cup {ArchiveResp(TRUE, 200, TRUE, TRUE, a) : a \in archives}

PackIos ==
    { PackIo(TRUE, 0, "none"), PackIo(FALSE, 0, "none"), PackIo(TRUE, 1, "none"),
      PackIo(TRUE, 2, "none"), PackIo(TRUE, 0, "start"), PackIo(TRUE, 0, "write"),
      PackIo(TRUE, 0, "finish") }

UploadResps ==
    { TransportFailure, NotJson(500, <<"oops">>), NotJson(200, <<"ok">>),
      JsonBody(200, [message |-> JStr(<<"stored">>)]) }

-----------------------------------------------------------------------------
(* Specifications.                                                         *)

\* A process that has just loaded the library.
ProcessStart ==
    /\ apiUrl = DefaultUrl
    /\ heap = EmptyHeap
    /\ held = {}
    /\ aborted = FALSE
    /\ loops = <<>>
    /\ cloud = None
    /\ caller = "idle"
    /\ installers = <<>>
    /\ shown = [i \in NotifIds |-> [tried |-> 0, displayed |-> 0]]
    /\ call = CallOf("none", "none", <<>>, NoInput)
    /\ ret = NoReturn
    /\ sent = <<>>

\* A machine on which the library never ran, holding one save directory.
Init ==
    /\ ProcessStart
    /\ cacheFile = NoFile
    /\ manifest = NoFile
    /\ files = (<<"save", "a">> :> 1)
    /\ dirs = {SaveDir}

Free == \E p \in held \cup {Null} : devstore_free_message(p)

SetUrl == \E u \in CArgs(UrlTexts) : set_custom_url(u)

GetVersion == \E a \in IdArgs, r \in StatusResps : get_version_from_id(a, r)

Online == \E r \in OnlineResps : is_devstore_online(r)

Username == \E a \in IdArgs, r \in StatusResps : get_current_username(a, r)

Verify == \E a \in IdArgs, r \in StatusResps, sdl \in Backends : verify_download_v2(a, r, sdl)

Notify ==
    \E t \in CArgs({<<"Hi">>}), b \in CArgs({<<"Hello">>}), sdl \in Backends :
        send_notification(t, b, sdl)

CheckNotification ==
    \E a \in IdArgs, e \in NotifEnvs : check_and_show_notification(a, e.resp, e.sdl, e.io)

\* The same with a product id that parses.
CheckValidNotification ==
    \E a \in {CStrOf(t) : t \in ProductIds}, e \in NotifEnvs :
        check_and_show_notification(a, e.resp, e.sdl, e.io)

\* The caller releases the envelope of a call before it makes the next one.
Released == held = {}

StartLoop == \E a \in IdArgs : init_simple_loop(a)

\* What the environment does in one cycle of a loop.
LoopEnvs ==
    { [resp |-> TransportFailure, sdl |-> "ok", io |-> IoOk],
      [resp |-> NotJson(404, <<"not found">>), sdl |-> "ok", io |-> IoOk],
      [resp |-> NotJson(200, <<"<html>">>), sdl |-> "ok", io |-> IoOk],
      [resp |-> Notification(JNum(0, 5), JStr(<<"Hi">>), JStr(<<"Hello">>)),
       sdl |-> "ok", io |-> IoOk],
      [resp |-> Notification(JNum(0, 5), JStr(<<"Hi">>), JStr(<<"Hello">>)),
       sdl |-> "dialog_failed", io |-> IoOk],
      [resp |-> Notification(JNum(0, 6), JStr(<<"Hi">>), JStr(<<"Hello">>)),
       sdl |-> "ok", io |-> IoOf(TRUE, FALSE, 0)],
      [resp |-> Notification(JNum(0, 6), JStr(<<"H", NUL, "i">>), JStr(<<"Hello">>)),
       sdl |-> "ok", io |-> IoOk] }

Cycle == \E t \in DOMAIN loops, e \in LoopEnvs : LoopCycle(t, e.resp, e.sdl, e.io)

Wake == \E t \in DOMAIN loops : LoopWake(t)

ValidId == CStrOf(<<"pkg">>)
ValidSecret == CStrOf(<<"secret">>)

\* The paths the caller names: the save directory, a file in it, a path that
\* does not exist, a FIFO.
PathArgs ==
    {CStrOf(t) : t \in {<<"save">>, <<"save", Slash, "a">>, <<"missing">>, <<"fifo">>}}

Upload ==
    \E path \in PathArgs, io \in PackIos, r \in UploadResps :
        upload_save_to_server(ValidId, ValidSecret, path, io, r)

Held == IF cloud.some THEN {cloud.v} ELSE {}

UnpackIos ==
    {IoOf(TRUE, TRUE, 0), IoOf(TRUE, TRUE, 1), IoOf(TRUE, TRUE, 2), IoCopyFails(2)}

DownloadSave ==
    \E r \in ArchiveResps(ServedArchives \cup Held), io \in UnpackIos :
        download_save_from_server(ValidId, ValidSecret, CStrOf(DestDir), r, io)

UpdateIos ==
    { IoOf(TRUE, TRUE, 0), IoOf(TRUE, FALSE, 0), IoOf(FALSE, FALSE, 0),
      IoOf(TRUE, TRUE, 1), IoOf(TRUE, TRUE, 2), IoCopyFails(2) }

\* Archives an update server can answer with: the served ones and one whose
\* entry names a file of the first install directory from a sibling.
UpdateArchives == ServedArchives \cup {<<FileEntry(<<Up, "update", "a">>, 1)>>}

DownloadUpdate ==
    \E r \in ArchiveResps(UpdateArchives), io \in UpdateIos, c \in Suffixes :
        download_update_for_product(ValidId, r, io, c)

\* Every exported operation, the release operation and the loop threads, on
\* arguments that parse and arguments that do not, with the environment's
\* answers that make each operation build its envelopes in every way it can.
OneArg == {ValidId, CNull}

Shown5 == Notification(JNum(0, 5), JStr(<<"Hi">>), JStr(<<"Hello">>))
Shown5Nul == Notification(JNum(0, 5), JStr(<<"H", NUL, "i">>), JStr(<<"Hello">>))

FewEnvs ==
    { [resp |-> TransportFailure, sdl |-> "ok", io |-> IoOk],
      [resp |-> Shown5, sdl |-> "ok", io |-> IoOk],
      [resp |-> Shown5, sdl |-> "dialog_failed", io |-> IoOk],
      [resp |-> Shown5Nul, sdl |-> "ok", io |-> IoOk] }

Denied == JsonBody(200, [status |-> JStr(<<"error">>), message |-> JStr(<<"denied">>)])
DeniedNul == JsonBody(200, [status |-> JStr(<<"error">>), message |-> JStr(<<"de", NUL, "nied">>)])
Verified == JsonBody(200, [status |-> JStr(<<"success">>), username |-> JStr(<<"bob", NUL>>)])

AnySetUrl == \E u \in {CNull, CStrOf(DefaultUrl)} : set_custom_url(u)

AnyGetVersion ==
    \E a \in OneArg, r \in {TransportFailure, JsonBody(200, [version |-> JStr(<<"1.2">>)])} :
        get_version_from_id(a, r)

AnyOnline == \E r \in {TransportFailure, Unreadable(200), Unreadable(503)} : is_devstore_online(r)

AnyUsername == \E a \in OneArg, r \in {Verified, NotJson(500, <<"oops">>)} : get_current_username(a, r)

AnyVerify ==
    \E a \in OneArg, r \in {Verified, Denied, DeniedNul}, sdl \in {"ok", "unavailable"} :
        verify_download_v2(a, r, sdl)

AnyNotify ==
    \E t \in {CStrOf(<<"Hi">>), CNull}, b \in {CStrOf(<<"Hello">>), CEmpty},
       sdl \in {"ok", "init_failed"} :
        send_notification(t, b, sdl)

AnyCheck == \E a \in OneArg, e \in FewEnvs : check_and_show_notification(a, e.resp, e.sdl, e.io)

AnyStartLoop == \E a \in OneArg : loops = <<>> /\ init_simple_loop(a)

AnyCycle == \E t \in DOMAIN loops, e \in FewEnvs : LoopCycle(t, e.resp, e.sdl, e.io)

AnyUpload ==
    \E a \in OneArg, path \in {CStrOf(<<"save">>), CStrOf(<<"missing">>)},
       r \in {TransportFailure, NotJson(200, <<"ok">>)} :
        upload_save_to_server(a, ValidSecret, path, PackIo(TRUE, 0, "none"), r)

OneArchive == ArchiveResp(TRUE, 200, TRUE, TRUE, <<FileEntry(<<"a">>, 2)>>)
NotFound == ArchiveResp(TRUE, 404, TRUE, FALSE, <<>>)

AnyDownloadSave ==
    \E a \in OneArg, r \in {NotFound, OneArchive} :
        download_save_from_server(ValidId, a, CStrOf(DestDir), r, IoOk)

AnyDownloadUpdate ==
    \E a \in OneArg, r \in {NotFound, OneArchive}, c \in Suffixes :
        download_update_for_product(a, r, IoOk, c)

Next ==
    \/ get_sdk_version
    \/ AnySetUrl
    \/ AnyGetVersion
    \/ AnyOnline
    \/ AnyUsername
    \/ AnyVerify
    \/ AnyNotify
    \/ AnyCheck
    \/ AnyStartLoop
    \/ AnyCycle
    \/ Wake
    \/ AnyUpload
    \/ AnyDownloadSave
    \/ AnyDownloadUpdate
    \/ Free

Spec == Init /\ [][Next]_vars

\* Every operation that takes strings, on every combination of null, undecodable,
\* empty and well-formed arguments, in an environment where everything succeeds.
SecretArgs == CArgs({<<"secret">>})

ArgsSetUrl == \E u \in CArgs({<<"h">>}) : set_custom_url(u)

ArgsGetVersion ==
    \E a \in IdArgs : get_version_from_id(a, JsonBody(200, [version |-> JStr(<<"1.2">>)]))

ArgsUsername == \E a \in SecretArgs : get_current_username(a, Verified)

ArgsVerify == \E a \in IdArgs : verify_download_v2(a, Denied, "ok")

ArgsNotify ==
    \E t \in CArgs({<<"Hi">>}), b \in CArgs({<<"Hello">>}) : send_notification(t, b, "ok")

ArgsCheck == \E a \in IdArgs : check_and_show_notification(a, Shown5, "ok", IoOk)

ArgsUpload ==
    \E a \in IdArgs, b \in SecretArgs, c \in CArgs({<<"save">>}) :
        upload_save_to_server(a, b, c, PackIo(TRUE, 0, "none"), NotJson(200, <<"ok">>))

ArgsDownloadSave ==
    \E a \in IdArgs, b \in SecretArgs, c \in CArgs({DestDir}) :
        download_save_from_server(a, b, c, OneArchive, IoOk)

ArgsDownloadUpdate ==
    \E a \in IdArgs, c \in Suffixes : download_update_for_product(a, OneArchive, IoOk, c)

NextArgs ==
    \/ Released /\ ArgsSetUrl
    \/ Released /\ ArgsGetVersion
    \/ Released /\ ArgsUsername
    \/ Released /\ ArgsVerify
    \/ Released /\ ArgsNotify
    \/ Released /\ ArgsCheck
    \/ Released /\ StartLoop
    \/ Released /\ ArgsUpload
    \/ Released /\ ArgsDownloadSave
    \/ Released /\ ArgsDownloadUpdate
    \/ Free

SpecArgs == Init /\ [][NextArgs]_vars

\* The base URL: set_custom_url on every URL, then each networked operation,
\* from the caller and from the loops, with a transport that fails.
UrlOnline == is_devstore_online(TransportFailure)
UrlGetVersion == get_version_from_id(ValidId, TransportFailure)
UrlUsername == get_current_username(ValidSecret, TransportFailure)
UrlVerify == verify_download_v2(ValidId, TransportFailure, "ok")
UrlCheck == check_and_show_notification(ValidId, TransportFailure, "ok", IoOk)
UrlUpload ==
    upload_save_to_server(ValidId, ValidSecret, CStrOf(<<"save">>), PackIo(TRUE, 0, "none"),
                          TransportFailure)
UrlDownloadSave ==
    download_save_from_server(ValidId, ValidSecret, CStrOf(DestDir),
                              ArchiveResp(FALSE, 0, FALSE, FALSE, <<>>), IoOk)
UrlDownloadUpdate ==
    download_update_for_product(ValidId, ArchiveResp(FALSE, 0, FALSE, FALSE, <<>>), IoOk,
                                "update_aaa")
UrlCycle == \E t \in DOMAIN loops : LoopCycle(t, TransportFailure, "ok", IoOk)

NextUrl ==
    \/ Released /\ SetUrl
    \/ Released /\ UrlOnline
    \/ Released /\ UrlGetVersion
    \/ Released /\ UrlUsername
    \/ Released /\ UrlVerify
    \/ Released /\ UrlCheck
    \/ Released /\ UrlUpload
    \/ Released /\ UrlDownloadSave
    \/ Released /\ UrlDownloadUpdate
    \/ Released /\ StartLoop
    \/ UrlCycle
    \/ Wake
    \/ Free

SpecUrl == Init /\ [][NextUrl]_vars

\* The notification operations on a machine whose cache file is in any state.
InitNotif ==
    /\ ProcessStart
    /\ cacheFile \in {NoFile, CorruptCache, CacheOf({}), CacheOf({6})}
    /\ manifest = NoFile
    /\ files = <<>>
    /\ dirs = IF cacheFile.exists THEN {Prefs} ELSE {}

NextNotif ==
    \/ Released /\ CheckValidNotification
    \/ Free

SpecNotif == InitNotif /\ [][NextNotif]_vars

\* Saves: upload from any source tree, download into the destination.
InitSave ==
    /\ ProcessStart
    /\ cacheFile = NoFile
    /\ manifest = NoFile
    /\ files \in SaveTrees
    /\ dirs = DirsOf(files) \cup {SaveDir}

NextSave ==
    \/ Released /\ Upload
    \/ Released /\ DownloadSave
    \/ Free

SpecSave == InitSave /\ [][NextSave]_vars

\* Updates: installs one after another.
NextUpdate ==
    \/ Released /\ DownloadUpdate
    \/ Free

SpecUpdate == Init /\ [][NextUpdate]_vars

\* Background loops.
NextLoop ==
    \/ Released /\ StartLoop
    \/ Cycle
    \/ Wake
    \/ Free

SpecLoop == InitNotif /\ [][NextLoop]_vars

\* Unpacking: restores of a save and installs of an update, one after another,
\* with filesystem calls that fail.
UnpackArchives ==
    { <<DirEntry(<<"d">>), FileEntry(<<"d", "a">>, 1), FileEntry(<<"b">>, 2)>>,
      <<FileEntry(<<"a">>, 1), FileEntry(<<"a", "b">>, 2)>>,
      <<FileEntry(<<"d", "a">>, 2)>> }

UnpackSave ==
    \E a \in UnpackArchives, io \in UnpackIos :
        download_save_from_server(ValidId, ValidSecret, CStrOf(DestDir),
                                  ArchiveResp(TRUE, 200, TRUE, TRUE, a), io)

UnpackUpdate ==
    \E a \in UnpackArchives, io \in UnpackIos, c \in Suffixes :
        download_update_for_product(ValidId, ArchiveResp(TRUE, 200, TRUE, TRUE, a), io, c)

NextUnpack ==
    \/ Released /\ UnpackSave
    \/ Released /\ UnpackUpdate
    \/ Free

SpecUnpack == Init /\ [][NextUnpack]_vars

\* The display: notifications to show, on every answer of the backend, with a
\* cache file that can be written or not, from the caller and from one loop.
DisplayEnvs ==
    {[resp |-> r, sdl |-> sdl, io |-> io] :
         r \in {Shown5, Notification(JNum(0, 6), JStr(<<"Hi">>), JStr(<<"Hello">>))},
         sdl \in Backends, io \in {IoOk, IoOf(TRUE, FALSE, 0)}}
    \cup {[resp |-> Shown5Nul, sdl |-> "ok", io |-> IoOk]}

DisplayCheck == \E e \in DisplayEnvs : check_and_show_notification(ValidId, e.resp, e.sdl, e.io)

DisplayCycle == \E t \in DOMAIN loops, e \in DisplayEnvs : LoopCycle(t, e.resp, e.sdl, e.io)

NextDisplay ==
    \/ Released /\ DisplayCheck
    \/ Released /\ loops = <<>> /\ init_simple_loop(ValidId)
    \/ DisplayCycle
    \/ Wake
    \/ Free

SpecDisplay == InitNotif /\ [][NextDisplay]_vars

-----------------------------------------------------------------------------
(* download_update_for_product on host threads, one statement at a time.   *)

\* At most this many host threads call download_update_for_product.
MaxInstallers == 2

InstallerCall(t, step) ==
    CallOf("installer", "download_update_for_product", <<ValidId>>, [t |-> t, step |-> step])

At(t, pc) == t \in DOMAIN installers /\ installers[t].pc = pc

\* A host thread calls the operation and has the archive in memory.
InstallFetch(archive) ==
    /\ ~aborted
    /\ Len(installers) < MaxInstallers
    /\ installers' = Append(installers, [pc |-> "resolve", archive |-> archive,
                                         path |-> <<>>, candidate |-> <<>>])
    /\ call' = InstallerCall(Len(installers) + 1, "fetch")
    /\ sent' = <<Request("POST", api_base_url \o <<"get_latest_patch", Slash>>)>>
    /\ ret' = NoReturn
    /\ UNCHANGED <<apiUrl, heap, held, aborted, loops, cacheFile, manifest, files, dirs,
                   shown, cloud, caller>>

\* get_pref_path, then base_update.exists().
InstallResolve(t) ==
    LET d1 == get_pref_path(dirs, IoOk)
    IN  /\ ~aborted
        /\ At(t, "resolve")
        /\ dirs' = d1
        /\ installers' = IF exists(d1, files, base_update)
                         THEN [installers EXCEPT ![t].pc = "draw"]
                         ELSE [installers EXCEPT ![t].pc = "create", ![t].path = base_update]
        /\ call' = InstallerCall(t, "resolve")
        /\ sent' = <<>>
        /\ ret' = NoReturn
        /\ UNCHANGED <<apiUrl, heap, held, aborted, loops, cacheFile, manifest, files,
                       shown, cloud, caller>>

\* One turn of the suffix loop: draw a suffix, break when the candidate does
\* not exist, else draw again.
InstallDraw(t, c) ==
    LET candidate == Prefs \o <<c>>
    IN  /\ ~aborted
        /\ At(t, "draw")
        /\ installers' = IF ~exists(dirs, files, candidate)
                         THEN [installers EXCEPT ![t].pc = "create", ![t].path = candidate,
                                                 ![t].candidate = candidate]
                         ELSE [installers EXCEPT ![t].candidate = candidate]
        /\ call' = InstallerCall(t, "draw")
        /\ sent' = <<>>
        /\ ret' = NoReturn
        /\ UNCHANGED <<apiUrl, heap, held, aborted, loops, cacheFile, manifest, files, dirs,
                       shown, cloud, caller>>

\* fs::create_dir_all(&update_path).
InstallCreate(t) ==
    LET made == create_dir_all(dirs, files, installers[t].path)
    IN  /\ ~aborted
        /\ At(t, "create")
        /\ call' = InstallerCall(t, "create")
        /\ sent' = <<>>
        /\ IF made.ok
           THEN /\ dirs' = made.dirs
                /\ installers' = [installers EXCEPT ![t].pc = "unpack"]
                /\ ret' = NoReturn
                /\ UNCHANGED <<heap, held>>
           ELSE /\ Cardinality(held) < MaxHeld
                /\ Return(message_error(heap, <<"Error: Failed to create update dir: ", "<e>">>))
                /\ installers' = [installers EXCEPT ![t].pc = "failed"]
                /\ UNCHANGED dirs
        /\ UNCHANGED <<apiUrl, aborted, loops, cacheFile, manifest, files, shown, cloud, caller>>

\* The archive is unpacked into update_path.
InstallUnpack(t) ==
    LET got == unpack(installers[t].archive, 1, installers[t].path, dirs, files, IoOk,
                      UpdateErrors)
    IN  /\ ~aborted
        /\ At(t, "unpack")
        /\ call' = InstallerCall(t, "unpack")
        /\ sent' = <<>>
        /\ dirs' = got.dirs
        /\ files' = got.files
        /\ IF got.ok
           THEN /\ installers' = [installers EXCEPT ![t].pc = "manifest"]
                /\ ret' = NoReturn
                /\ UNCHANGED <<heap, held>>
           ELSE /\ Cardinality(held) < MaxHeld
                /\ Return(message_error(heap, got.err))
                /\ installers' = [installers EXCEPT ![t].pc = "failed"]
        /\ UNCHANGED <<apiUrl, aborted, loops, cacheFile, manifest, shown, cloud, caller>>

\* current_version.json is written and the success envelope returned.
InstallManifest(t) ==
    /\ ~aborted
    /\ At(t, "manifest")
    /\ Cardinality(held) < MaxHeld
    /\ call' = InstallerCall(t, "manifest")
    /\ sent' = <<>>
    /\ manifest' = ManifestOf(installers[t].path)
    /\ installers' = [installers EXCEPT ![t].pc = "installed"]
    /\ Return(message_success(heap, <<"Update downloaded and extracted successfully.">>))
    /\ UNCHANGED <<apiUrl, aborted, loops, cacheFile, files, dirs, shown, cloud, caller>>

\* The archives two concurrent installs are served.
InstallArchives == {<<FileEntry(<<"a">>, 1)>>, <<FileEntry(<<"b">>, 2)>>}

\* The states of the preferences directory an install can find: nothing,
\* the first install directory, one suffix taken, every candidate taken.
PrefsStates ==
    { {},
      {Prefs, base_update},
      {Prefs, base_update, Prefs \o <<"update_aaa">>},
      {Prefs, base_update} \cup {Prefs \o <<c>> : c \in Suffixes} }

InitPrefs ==
    /\ ProcessStart
    /\ cacheFile = NoFile
    /\ manifest = NoFile
    /\ files = <<>>
    /\ dirs \in PrefsStates

Fetch == \E a \in InstallArchives : InstallFetch(a)
ResolveStep == \E t \in DOMAIN installers : InstallResolve(t)
Draw == \E t \in DOMAIN installers, c \in Suffixes : InstallDraw(t, c)
Create == \E t \in DOMAIN installers : InstallCreate(t)
UnpackStepOf == \E t \in DOMAIN installers : InstallUnpack(t)
WriteManifest == \E t \in DOMAIN installers : InstallManifest(t)

NextInstallers ==
    \/ Fetch
    \/ ResolveStep
    \/ Draw
    \/ Create
    \/ UnpackStepOf
    \/ WriteManifest
    \/ Free

\* Installs on concurrent host threads, scheduled in any order.
SpecInstallers == InitPrefs /\ [][NextInstallers]_vars

\* The random generator is fair: a suffix that can be drawn is drawn in the
\* end; and a thread that runs is scheduled.
FairDraws ==
    \A t \in 1..MaxInstallers :
        /\ \A c \in Suffixes : WF_vars(InstallDraw(t, c))
        /\ WF_vars(InstallResolve(t))

SpecInstallersFair == InitPrefs /\ [][NextInstallers]_vars /\ FairDraws

-----------------------------------------------------------------------------
(* A loop's cycle in two steps: up to the load of the cache, and from the  *)
(* dialog to the save. Nothing locks the cache file in between.            *)

\* Lines 562-612 on loop t: the request, the answer, load_notification_cache
\* and the lookup. A cycle with nothing to show ends here and the thread
\* sleeps; else the thread holds its copy of the cache and goes on.
LoopLoad(t, resp) ==
    \E c_id \in {CStringNew(loops[t].id)} :
    \E o \in {check_and_show_notification_fn(heap, CStrOf(c_id.s), resp, "ok", IoOk)} :
        LET cache == load_notification_cache(IF Prefs \in o.dirs THEN cacheFile ELSE NoFile)
        IN  /\ ~aborted
            /\ loops[t].pc = "cycle"
            /\ c_id.ok
            /\ call' = CallOf("loop", "load_notification_cache", <<CStrOf(c_id.s)>>,
                              [resp |-> resp])
            /\ IF o.panic \/ o.tried.some
               THEN /\ loops' = [loops EXCEPT ![t] = [pc |-> "loaded", id |-> @.id,
                                                      cache |-> cache, notif |-> resp]]
                    /\ UNCHANGED heap
               ELSE /\ loops' = [loops EXCEPT ![t].pc = "sleep"]
                    /\ heap' = drop_message(o.m.heap, o.m.ptr)
            /\ ret' = NoReturn
            /\ sent' = o.sent
            /\ dirs' = o.dirs
            /\ UNCHANGED <<apiUrl, held, aborted, cacheFile, manifest, files, shown, cloud,
                           caller, installers>>

\* Lines 616-625 on loop t: the dialog, cache.insert and
\* save_notification_cache of the copy loaded earlier; then the loop drops the
\* envelope and sleeps.
LoopShowSave(t, sdl) ==
    LET notif_id == as_u32(unwrap_or(as_u64(json_get(loops[t].notif.obj, "notification_id")),
                                     U64(0, 0)))
        c_title == CStringNew(unwrap_or(as_str(json_get(loops[t].notif.obj, "title")),
                                        <<"Notification">>))
        c_body == CStringNew(unwrap_or(as_str(json_get(loops[t].notif.obj, "message")), <<>>))
        notification_result == send_notification_fn(heap, CStrOf(c_title.s), CStrOf(c_body.s), sdl)
        h1 == drop_message(notification_result.m.heap, notification_result.m.ptr)
        cache1 == loops[t].cache \cup {notif_id}
        m == message_success(h1, <<"Notification shown.">>)
    IN  /\ ~aborted
        /\ loops[t].pc = "loaded"
        /\ call' = CallOf("loop", "save_notification_cache", <<>>, [sdl |-> sdl])
        /\ IF ~c_title.ok \/ ~c_body.ok
           THEN /\ aborted' = TRUE
                /\ loops' = [loops EXCEPT ![t] = [pc |-> "crashed", id |-> @.id]]
                /\ UNCHANGED <<heap, cacheFile, shown>>
           ELSE /\ heap' = drop_message(m.heap, m.ptr)
                /\ cacheFile' = save_notification_cache(cacheFile, dirs, cache1, IoOk)
                /\ shown' = [shown EXCEPT ![notif_id] =
                                 [tried |-> Bump(@.tried),
                                  displayed |-> IF notification_result.displayed
                                                THEN Bump(@.displayed) ELSE @.displayed]]
                /\ loops' = [loops EXCEPT ![t] = [pc |-> "sleep", id |-> @.id]]
                /\ UNCHANGED aborted
        /\ ret' = NoReturn
        /\ sent' = <<>>
        /\ UNCHANGED <<apiUrl, held, manifest, files, dirs, cloud, caller, installers>>

\* What the server answers a loop in these runs: nothing, or one of two
\* notifications.
RaceResps ==
    { TransportFailure, Shown5, Notification(JNum(0, 6), JStr(<<"Hi">>), JStr(<<"Hello">>)) }

RaceStart == \E a \in OneArg : init_simple_loop(a)
RaceLoad == \E t \in DOMAIN loops, r \in RaceResps : LoopLoad(t, r)
RaceShowSave == \E t \in DOMAIN loops, sdl \in {"ok", "dialog_failed"} : LoopShowSave(t, sdl)

NextRace ==
    \/ Released /\ RaceStart
    \/ RaceLoad
    \/ RaceShowSave
    \/ Wake
    \/ Free

\* Loops started by the host and nothing else, on a disk that can be written.
SpecRace == InitNotif /\ [][NextRace]_vars

-----------------------------------------------------------------------------
(* Properties.                                                             *)

CallerOperation == call.who = "caller" /\ call.op # "devstore_free_message"

\* C1: every exported operation, whatever its arguments, the transport's
\* outcome and the response body, ends by returning one non-null envelope.
EveryOperationReturnsAnEnvelope ==
    CallerOperation => ret.returned /\ ret.ptr # Null

\* The payloads of the envelopes the caller holds.
PayloadsHeld == {heap.boxes[b] : b \in held}

\* The live allocations are the envelopes the caller was handed and has not
\* released, each with a payload of its own.
OwnedByCaller ==
    /\ DOMAIN heap.boxes = held
    /\ heap.cstrs = PayloadsHeld
    /\ Cardinality(heap.cstrs) = Cardinality(held)
    /\ Null \notin held
    /\ (held = {} => heap = EmptyHeap)

\* A step hands the caller at most the one envelope it returns, which was not
\* live before; a release frees the envelope released and its payload and
\* nothing else; a release of the null reference changes nothing; what the
\* library builds and does not return (the nested send_notification envelope,
\* the envelope of a loop cycle) is gone when the step ends.
OneOwnerPerStep ==
    /\ ret'.returned =>
           /\ ret'.ptr \notin DOMAIN heap.boxes
           /\ DOMAIN heap'.boxes = DOMAIN heap.boxes \cup {ret'.ptr}
           /\ Cardinality(heap'.cstrs) = Cardinality(heap.cstrs) + 1
    /\ (~ret'.returned /\ call'.op # "devstore_free_message") => heap' = heap
    /\ call'.op = "devstore_free_message" =>
           IF call'.input.ptr = Null
           THEN heap' = heap /\ held' = held
           ELSE /\ DOMAIN heap'.boxes = DOMAIN heap.boxes \ {call'.input.ptr}
                /\ heap'.cstrs = heap.cstrs \ {heap.boxes[call'.input.ptr]}
                /\ \A b \in DOMAIN heap'.boxes : heap'.boxes[b] = heap.boxes[b]

\* C2: every envelope build_message allocates is returned to the caller or
\* released inside the library, exactly once; one release frees the envelope
\* and its text payload; releasing null changes nothing; once the caller has
\* released what it was handed, no allocation is live.
EnvelopeOwnership == []OwnedByCaller /\ [][OneOwnerPerStep]_vars

\* The caller holds two envelopes, the later one returned by a
\* check_and_show_notification that built and released a nested one.
NestedEnvelopeReleased ==
    /\ call.who = "caller"
    /\ call.op = "check_and_show_notification"
    /\ ret.returned
    /\ ret.env.message = <<"Notification shown.">>
    /\ Cardinality(held) = 2
    /\ Cardinality(heap.cstrs) = 2

\* The parameters of each exported operation, in declaration order.
ParamNames(op) ==
    CASE op = "set_custom_url" -> <<"custom_url">>
      [] op = "upload_save_to_server" -> <<"package_id", "user_secret", "file_or_folder_path">>
      [] op = "download_save_from_server" -> <<"package_id", "user_secret", "extract_path">>
      [] op = "get_version_from_id" -> <<"package_id">>
      [] op = "send_notification" -> <<"title", "body">>
      [] op = "check_and_show_notification" -> <<"product_id">>
      [] op = "init_simple_loop" -> <<"product_id">>
      [] op = "get_current_username" -> <<"user_secret">>
      [] op = "download_update_for_product" -> <<"package_id">>
      [] op = "verify_download_v2" -> <<"package_id">>
      [] OTHER -> <<>>

Unusable(arg) == arg.null \/ ~arg.utf8 \/ arg.s = <<>>

FirstUnusable(args) ==
    CHOOSE i \in DOMAIN args : Unusable(args[i]) /\ \A j \in 1..(i - 1) : ~Unusable(args[j])

RejectedBeforeAnyEffect ==
    (call'.who = "caller" /\ \E i \in DOMAIN call'.args : Unusable(call'.args[i])) =>
        LET i == FirstUnusable(call'.args)
            name == ParamNames(call'.op)[i]
        IN  /\ ret'.returned
            /\ ret'.env.status = Error
            /\ ret'.env.message = IF call'.args[i].null
                                  THEN <<"Missing ", name, " parameter">>
                                  ELSE <<"Invalid ", name, " parameter">>
            /\ sent' = <<>>
            /\ UNCHANGED <<apiUrl, loops, cacheFile, manifest, files, dirs, cloud, shown,
                           aborted, caller>>

\* C3: the arguments are checked in declaration order; the first that is null
\* gives Error "Missing <name> parameter", the first that does not decode or is
\* empty gives Error "Invalid <name> parameter", and the operation returns
\* with no request sent, no file or directory touched, the base URL as it was
\* and no loop spawned.
ArgumentValidation == [][RejectedBeforeAnyEffect]_vars

\* upload_save_to_server with a good first argument, an empty second and a
\* null third: the second is the one reported.
SecondArgumentReported ==
    /\ call.op = "upload_save_to_server"
    /\ ~Unusable(call.args[1])
    /\ call.args[2] = CEmpty
    /\ call.args[3] = CNull
    /\ ret.env.status = Error
    /\ ret.env.message = <<"Invalid ", "user_secret", " parameter">>
    /\ sent = <<>>

\* C4: unpacking creates no directory and writes no file outside the
\* destination directory: beside the source tree, every file and directory
\* lies in the destination.
UnpackStaysInDestination ==
    \A p \in DOMAIN files \cup dirs : IsPrefix(SaveDir, p) \/ IsPrefix(DestDir, p)

\* The notification a response names, as the claim reads it.
NotifTitle(r) == unwrap_or(as_str(json_get(r.obj, "title")), <<"Notification">>)
NotifMessage(r) == unwrap_or(as_str(json_get(r.obj, "message")), <<>>)
NotifId(r) == unwrap_or(as_u64(json_get(r.obj, "notification_id")), U64(0, 0))
Answered(r) == r.transport /\ is_success(r.status)
Parsed(r) == r.readable /\ r.parses

\* The ids the cache file holds.
PersistedIds(file) == IF file.exists /\ file.parses THEN file.shown_ids ELSE {}

NotificationRun == call'.who = "caller" /\ call'.op = "check_and_show_notification"

\* The step called send_notification for id n, or for none.
Invoked(n) == shown'[n].tried = Bump(shown[n].tried) /\ \A m \in NotifIds \ {n} : shown'[m] = shown[m]
NotInvoked == shown' = shown

DedupAsClaimed ==
    NotificationRun =>
        LET r == call'.input.resp
            id == NotifId(r)
            due == /\ Answered(r) /\ NotifMessage(r) # <<>> /\ id # U64(0, 0)
                   /\ ~(id.hi = 0 /\ id.lo \in PersistedIds(cacheFile))
        IN  IF due
            THEN /\ shown' # shown
                 /\ id.hi = 0 /\ id.lo \in PersistedIds(cacheFile')
            ELSE /\ NotInvoked
                 /\ ret'.returned /\ ret'.env.status = Info
                 /\ cacheFile' = cacheFile

DedupAsBuilt ==
    NotificationRun =>
        LET r == call'.input.resp
            io == call'.input.io
            n == NotifId(r).lo
            due == /\ Answered(r) /\ Parsed(r) /\ NotifMessage(r) # <<>> /\ n # 0
                   /\ n \notin PersistedIds(cacheFile)
            nul == HasNul(NotifTitle(r)) \/ HasNul(NotifMessage(r))
        IN  IF due /\ ~nul
            THEN /\ Invoked(n)
                 /\ shown'[n].displayed =
                        IF call'.input.sdl = "ok" /\ NotifTitle(r) # <<>>
                        THEN Bump(shown[n].displayed)
                        ELSE shown[n].displayed
                 /\ ret'.returned /\ ret'.env.status = Success
                 /\ IF io.write /\ (io.mkdir \/ Prefs \in dirs)
                    THEN PersistedIds(cacheFile') = PersistedIds(cacheFile) \cup {n}
                    ELSE cacheFile' = cacheFile
            ELSE /\ NotInvoked
                 /\ cacheFile' = cacheFile
                 /\ IF due THEN aborted' /\ ~ret'.returned
                    ELSE /\ ret'.returned
                         /\ ret'.env.status =
                                IF r.transport /\ (~is_success(r.status) \/ Parsed(r))
                                THEN Info ELSE Error

Relative(f, base) ==
    LET under == {q \in DOMAIN f : IsPrefix(base, q) /\ q # base}
    IN  [r \in {SubSeq(p, Len(base) + 1, Len(p)) : p \in under} |-> f[base \o r]]

\* The entries of an archive, by their names.
Stored(archive) ==
    [c \in {archive[i].name.comps : i \in DOMAIN archive} |->
        archive[CHOOSE i \in DOMAIN archive : archive[i].name.comps = c].data]

UploadStored == call'.op = "upload_save_to_server" /\ ret'.env.status = Success

RestoreIntoEmpty ==
    /\ call'.op = "download_save_from_server"
    /\ ret'.env.status = Success
    /\ cloud.some
    /\ call'.input.resp.archive = cloud.v
    /\ DOMAIN Relative(files, DestDir) = {}

RoundTripStep ==
    /\ UploadStored =>
           LET path == PathOf(call'.args[3].s)
               source == IF path \in DOMAIN files
                         THEN (<<path[Len(path)]>> :> files[path])
                         ELSE Relative(files, path)
           IN  /\ Stored(cloud'.v) = source
               /\ Len(cloud'.v) = Cardinality(DOMAIN source)
    /\ RestoreIntoEmpty => Relative(files', DestDir) = Stored(cloud.v)

\* C6: the archive the packer builds from a source tree, unpacked into an
\* empty destination, yields the original files with identical relative paths
\* and contents; for a single file, one file named by its base name.
PackUnpackRoundTrip == [][RoundTripStep]_vars

\* How many files the path names.
SourceCount(path) ==
    IF path \in DOMAIN files THEN 1 ELSE Cardinality(DOMAIN Relative(files, path))

\* The packing of an upload is struck by a failure.
PackingStruck ==
    LET path == PathOf(call.args[3].s)
        io == call.input.io
        n == SourceCount(path)
    IN  \/ path \notin DOMAIN files \cup dirs
        \/ path \in dirs /\ ~io.walk
        \/ io.read \in 1..n
        \/ io.zip \in {"start", "write"} /\ n > 0
        \/ io.zip = "finish"

\* C7: upload_save_to_server sends its request only after the archive was
\* built and finalized; when the path does not exist or is neither file nor
\* directory, a read or the walk fails, or an archive step fails, it returns
\* Error and sends nothing; a nonexistent path says that it does not exist.
UploadOnlyAfterFinish ==
    (call.op = "upload_save_to_server" /\ \A i \in DOMAIN call.args : ~Unusable(call.args[i])) =>
        /\ \A i \in DOMAIN sent :
               /\ sent[i].form.finished
               /\ Len(sent[i].form.save_file) = SourceCount(PathOf(call.args[3].s))
        /\ PackingStruck => ret.env.status = Error /\ sent = <<>>
        /\ ~PackingStruck => Len(sent) = 1
        /\ call.args[3].s = <<"missing">> =>
               ret.env.message = <<"Error: File or folder does not exist">>

\* The archive writer's finish fails on a directory upload: Error, nothing sent.
FinishFailedNothingSent ==
    /\ call.op = "upload_save_to_server"
    /\ call.args[3].s = <<"save">>
    /\ call.input.io.zip = "finish"
    /\ call.input.resp.transport
    /\ ret.env.status = Error
    /\ ret.env.message = <<"Error: Failed to finish zip archive: ", "<e>">>
    /\ sent = <<>>

\* The endpoint each networked operation names.
Endpoint(c) ==
    CASE c.op = "is_devstore_online" -> <<"status-check">>
      [] c.op = "get_version_from_id" -> <<"version-hex", Slash>>
      [] c.op = "get_current_username" -> <<"get-username-by-secret", Slash>>
      [] c.op = "verify_download_v2" -> <<"verify-download", Slash>>
      [] c.op = "check_and_show_notification" ->
             <<"get-latest-notification-for-app", Slash, "?product_id=">> \o c.args[1].s
      [] c.op = "upload_save_to_server" -> <<"cloud-saves", Slash>>
      [] c.op = "download_save_from_server" -> <<"cloud-saves", Slash>>
      [] c.op = "download_update_for_product" -> <<"get_latest_patch", Slash>>

TargetsBaseUrl ==
    /\ Len(apiUrl) > 0 /\ apiUrl[Len(apiUrl)] = Slash
    /\ \A i \in DOMAIN sent : sent[i].url = apiUrl \o Endpoint(call)

SetsBaseUrl ==
    call'.op = "set_custom_url" =>
        LET u == call'.args[1]
        IN  IF Unusable(u) THEN apiUrl' = apiUrl
            ELSE /\ apiUrl' = IF u.s[Len(u.s)] = Slash THEN u.s ELSE u.s \o <<Slash>>
                 /\ ret'.env.status = Success
                 /\ ret'.env.message = <<"Custom URL set to ">> \o apiUrl'

\* C8: the stored base URL always ends with '/'; set_custom_url stores a valid
\* argument unchanged when it ends with '/', followed by one '/' otherwise,
\* and returns Success echoing the stored value; an invalid argument leaves
\* the stored URL; every request targets the stored URL followed directly by
\* the operation's endpoint.
BaseUrlNormalized == []TargetsBaseUrl /\ [][SetsBaseUrl]_vars

\* After set_custom_url("https://example.com/api") a loop's request goes to
\* https://example.com/api/get-latest-notification-for-app/?product_id=pkg.
RequestUnderCustomUrl ==
    /\ call.who = "loop"
    /\ Len(sent) = 1
    /\ apiUrl = <<"https://example.com", Slash, "api", Slash>>
    /\ sent[1].url = <<"https://example.com", Slash, "api", Slash,
                       "get-latest-notification-for-app", Slash, "?product_id=", "pkg">>

\* C9: download_update_for_product returns Success only if the install
\* directory was created, every entry was unpacked and the manifest was
\* written with the resolved install directory as its path.
UpdateSuccessMeansInstalled ==
    (call.op = "download_update_for_product" /\ ret.returned /\ ret.env.status = Success) =>
        /\ manifest.exists
        /\ manifest.path \in dirs
        /\ manifest.path \in {base_update} \cup {Prefs \o <<c>> : c \in Suffixes}
        /\ \A i \in DOMAIN call.input.resp.archive :
               LET e == call.input.resp.archive[i]
                   target == Resolve(join(manifest.path, e.name))
               IN  IF e.name.dir THEN target \in dirs
                   ELSE target \in DOMAIN files /\ files[target] = e.data

\* C10: every background loop runs forever: no outcome of a cycle ends or
\* crashes the loop thread.
LoopsNeverCrash ==
    ~aborted /\ \A t \in DOMAIN loops : loops[t].pc \in {"cycle", "sleep"}

\* The directories download_update_for_product installs into.
InstallDirs == {base_update} \cup {Prefs \o <<c>> : c \in Suffixes}

\* The step is a download_update_for_product that fetched its archive and
\* came back.
Installing ==
    /\ call'.who = "caller"
    /\ call'.op = "download_update_for_product"
    /\ ret'.returned
    /\ ~Unusable(call'.args[1])
    /\ call'.input.resp.transport
    /\ is_success(call'.input.resp.status)
    /\ call'.input.resp.readable

\* The directory that step resolved.
ResolvedDir ==
    IF base_update \in dirs \cup DOMAIN files
    THEN Prefs \o <<call'.input.candidate>>
    ELSE base_update

FreshInstallStep ==
    Installing =>
        /\ ResolvedDir \notin dirs \cup DOMAIN files
        /\ call'.input.io.mkdir => ResolvedDir \in dirs'
        /\ \A p \in DOMAIN files :
               (\E d \in InstallDirs : IsPrefix(d, p)) => p \in DOMAIN files' /\ files'[p] = files[p]

\* C11: in a sequence of download_update_for_product calls the directory a
\* call unpacks into did not exist when the call resolved it (<prefs>/update
\* when that did not exist, a free <prefs>/update_xyz otherwise), and the
\* files of an earlier install are never overwritten by a later one.
CollisionFreeInstall == [][FreshInstallStep]_vars

\* The response names a notification to show: the run gets to the cache.
ReachesCache(r) ==
    Answered(r) /\ Parsed(r) /\ NotifMessage(r) # <<>> /\ NotifId(r).lo # 0

CacheStep ==
    (NotificationRun /\ ReachesCache(call'.input.resp)) =>
        LET r == call'.input.resp
            io == call'.input.io
            n == NotifId(r).lo
            content == IF cacheFile.exists /\ cacheFile.parses THEN cacheFile.shown_ids ELSE {}
            writable == io.write /\ (io.mkdir \/ Prefs \in dirs)
        IN  IF n \in content
            THEN /\ ret'.returned
                 /\ ret'.env.message = <<"Notification already shown.">>
                 /\ cacheFile' = cacheFile
            ELSE IF HasNul(NotifTitle(r)) \/ HasNul(NotifMessage(r))
            THEN cacheFile' = cacheFile
            ELSE /\ ret'.returned
                 /\ ret'.env = [status |-> Success, code |-> 0,
                                message |-> <<"Notification shown.">>]
                 /\ cacheFile' = IF writable THEN CacheOf(content \cup {n}) ELSE cacheFile

DisplayIgnoredAsClaimed ==
    (call'.op = "check_and_show_notification" /\ ReachesCache(call'.input.resp)) =>
        LET n == NotifId(call'.input.resp).lo
        IN  IF n \in PersistedIds(cacheFile) THEN NotInvoked
            ELSE /\ n \in PersistedIds(cacheFile')
                 /\ call'.who = "caller" =>
                        /\ ret'.returned
                        /\ ret'.env.status = Success
                        /\ ret'.env.message = <<"Notification shown.">>

DisplayIgnoredStep ==
    (call'.op = "check_and_show_notification" /\ ReachesCache(call'.input.resp)) =>
        LET r == call'.input.resp
            io == call'.input.io
            n == NotifId(r).lo
        IN  IF n \in PersistedIds(cacheFile) THEN NotInvoked /\ cacheFile' = cacheFile
            ELSE IF HasNul(NotifTitle(r)) \/ HasNul(NotifMessage(r))
            THEN NotInvoked /\ aborted' /\ ~ret'.returned /\ cacheFile' = cacheFile
            ELSE /\ Invoked(n)
                 /\ shown'[n].displayed = IF call'.input.sdl = "ok" /\ NotifTitle(r) # <<>>
                                          THEN Bump(shown[n].displayed)
                                          ELSE shown[n].displayed
                 /\ IF io.write /\ (io.mkdir \/ Prefs \in dirs)
                    THEN n \in PersistedIds(cacheFile')
                    ELSE cacheFile' = cacheFile
                 /\ call'.who = "caller" =>
                        /\ ret'.returned
                        /\ ret'.env.status = Success
                        /\ ret'.env.message = <<"Notification shown.">>

Unpacking ==
    LET r == call'.input.resp
    IN  /\ call'.op \in {"download_save_from_server", "download_update_for_product"}
        /\ ret'.returned
        /\ \A i \in DOMAIN call'.args : ~Unusable(call'.args[i])
        /\ r.transport /\ is_success(r.status) /\ r.readable /\ r.zip
        /\ call'.op = "download_update_for_product" => call'.input.io.mkdir

\* The directory that step unpacks into.
UnpackDir ==
    IF call'.op = "download_save_from_server" THEN PathOf(call'.args[3].s) ELSE ResolvedDir

\* Where entry j of the archive goes.
TargetOf(j) == Resolve(join(UnpackDir, call'.input.resp.archive[j].name))

\* Entry j is in place after the step.
InPlace(j) ==
    LET e == call'.input.resp.archive[j]
    IN  IF e.name.dir THEN TargetOf(j) \in dirs'
        ELSE TargetOf(j) \in DOMAIN files' /\ files'[TargetOf(j)] = e.data

\* What the step changed on the filesystem belongs to the entries up to i.
OnlyUpTo(i) ==
    /\ \A p \in DOMAIN files' :
           (p \notin DOMAIN files \/ files'[p] # files[p]) => \E j \in 1..i : p = TargetOf(j)
    /\ \A p \in DOMAIN files : p \in DOMAIN files'
    /\ \A q \in dirs' \ dirs :
           \/ IsPrefix(q, Resolve(UnpackDir))
           \/ \E j \in 1..i : \E n \in 0..Len(join(UnpackDir, call'.input.resp.archive[j].name)) :
                  q = Resolve(SubSeq(join(UnpackDir, call'.input.resp.archive[j].name), 1, n))
    /\ dirs \subseteq dirs'

UnpackStep ==
    Unpacking =>
        LET archive == call'.input.resp.archive
            failAt == call'.input.io.failAt
        IN  /\ failAt \in DOMAIN archive => ret'.env.status = Error
            /\ ret'.env.status = Error =>
                   /\ \E i \in DOMAIN archive :
                          /\ failAt \in DOMAIN archive => i <= failAt
                          /\ \A j \in 1..(i - 1) : InPlace(j)
                          /\ OnlyUpTo(i)
                   /\ manifest' = manifest
            /\ ret'.env.status # Error =>
                   /\ \A j \in DOMAIN archive : InPlace(j)
                   /\ OnlyUpTo(Len(archive))

-----------------------------------------------------------------------------
(* The suffix loop and concurrent installs.                                *)

Drawing(t) == At(t, "draw")

\* C13: the selection of the install directory terminates in every state of
\* the preferences directory: a thread inside the suffix loop leaves it, when
\* a candidate is free and suffixes are drawn fairly, and also when `update`
\* and every candidate already exist.
SuffixSelectionTerminates ==
    \A t \in 1..MaxInstallers : Drawing(t) ~> ~Drawing(t)

\* Thread t is past create_dir_all: it unpacks, or has unpacked, into its path.
InsideDirectory(t) == t \in DOMAIN installers /\ installers[t].pc \in {"unpack", "manifest", "installed"}

\* C17: two download_update_for_product calls on different threads never
\* resolve to the same install directory: no two of them pass the existence
\* check for one path and unpack into it.
ConcurrentInstallsApart ==
    \A t, u \in DOMAIN installers :
        t # u /\ InsideDirectory(t) /\ InsideDirectory(u)
            => installers[t].path # installers[u].path

-----------------------------------------------------------------------------
(* Loops racing on the cache file.                                         *)

Holding(t) == t \in DOMAIN loops /\ loops[t].pc = "loaded"

\* Loop t holds a copy of the cache that misses an id the file has by now.
Stale(t) == Holding(t) /\ ~(PersistedIds(cacheFile) \subseteq loops[t].cache)

Started ==
    call'.op = "init_simple_loop" /\ ret'.returned /\ ret'.env.status = Success

\* A successful init_simple_loop adds one loop, whatever ids already loop;
\* nothing else adds or removes one.
OneLoopPerStart ==
    IF Started
    THEN /\ Len(loops') = Len(loops) + 1
         /\ SubSeq(loops', 1, Len(loops)) = loops
         /\ loops'[Len(loops')].id = PathOf(call'.args[1].s)
    ELSE Len(loops') = Len(loops)

\* While one loop runs alone, no id leaves the file and no id of the file is
\* displayed again.
AloneNothingLost ==
    Len(loops) <= 1 =>
        /\ PersistedIds(cacheFile) \subseteq PersistedIds(cacheFile')
        /\ \A n \in NotifIds :
               shown'[n].displayed > shown[n].displayed => n \notin PersistedIds(cacheFile)

\* C14: each successful init_simple_loop spawns exactly one loop, with no
\* deduplication by product id; a loop whose copy of the cache misses an id
\* of the file (loaded before another's save) exists only when two or more
\* loops run: with one loop and no other caller no entry is lost and no
\* persisted id is displayed again.
LoopsRaceOnlyTogether ==
    /\ [](\A t \in DOMAIN loops : Stale(t) => Len(loops) >= 2)
    /\ [][OneLoopPerStart /\ AloneNothingLost]_vars

\* Two loops of the same product: id 5 was displayed twice, and id 6 was
\* displayed and saved but is absent from the file finally written.
RaceLostAnEntry ==
    /\ Len(loops) = 2
    /\ loops[1].id = loops[2].id
    /\ shown[5].displayed = 2
    /\ shown[6].displayed = 1
    /\ PersistedIds(cacheFile) = {5}
====
